---- MODULE Spec2Model ----
(***************************************************************************)
(* A model of the gpx package: the Waypoint / Route / TrackSegment / Track *)
(* / GPX entities, their GeoJSON conversions and bounding boxes.           *)
(*                                                                         *)
(* Python values are modelled as records whose single field names the      *)
(* Python type ([str |-> ..], [int |-> ..], [dec |-> ..]); a dict is a     *)
(* function from its keys; a list or tuple is a sequence (wrapped as       *)
(* [list |-> ..] where it is the value of a property, since a property may *)
(* also be None).  A call either returns a value (Ok) or raises (Raise).   *)
(***************************************************************************)
EXTENDS Integers, Sequences, FiniteSets, TLC

VARIABLES
    self,      \* the entity the caller holds
    ret,       \* the outcome of the caller's last call
    written    \* the Document proxy fields the caller has assigned, with
               \* the value last assigned to each

vars == <<self, ret, written>>

(***************************************************************************)
(* Bounds of the model.                                                    *)
(***************************************************************************)
MaxSet == 2        \* optional fields assigned on a Waypoint
MaxAttrs == 1      \* optional fields assigned on a Route or a Track
MaxLinks == 1      \* links appended to an entity
MaxPts == 3        \* points held by the entity, over all its sequences
MaxSegs == 2       \* segments of a Track
MaxWpts == 1       \* waypoints of a GPX document
MaxRtes == 1       \* routes of a GPX document
MaxTrks == 1       \* tracks of a GPX document
MaxInPts == 2      \* positions / property maps in a GeoJSON line given
MaxInSegs == 2     \* lines in a GeoJSON multi-line given

(***************************************************************************)
(* Python values.                                                          *)
(***************************************************************************)
None == [py |-> "None"]

Unset == [py |-> "unset"]

Str(s) == [str |-> s]

PyInt(n) == [int |-> n]

Dec(n) == [dec |-> n]

\* a timezone-aware datetime in UTC: seconds and microseconds
DateTime(s, us) == [sec |-> s, usec |-> us, tz |-> "UTC"]

\* a naive datetime, without timezone
NaiveDateTime(s, us) == [sec |-> s, usec |-> us, tz |-> "naive"]

PyList(l) == [list |-> l]

Ok(v) == [ok |-> TRUE, val |-> v]

Raise(e) == [ok |-> FALSE, exc |-> e]

\* text holding an ISO-8601 timestamp: whole seconds and an optional
\* fractional part of three digits (<<>> when there is none)
\* and the UTC suffix "Z", or no suffix for a time without timezone
IsoTextOf(s, frac, suffix) ==
    [iso |-> [sec |-> s, frac |-> frac, suffix |-> suffix]]

IsoText(s, frac) == IsoTextOf(s, frac, "Z")

\* text holding a number, as str() gives it
NumText(n) == [numtext |-> n]

\* Decimal("Infinity") and Decimal("-Infinity")
Infinity == [inf |-> 1]

NegInfinity == [inf |-> -1]

TypeTags ==
    {"py", "str", "iso", "int", "dec", "inf", "list", "sec", "usec", "tz",
     "numtext", "dechi", "declo", "decwhole", "dece20", "float",
     "floattext"}

IsDict(x) == DOMAIN x \cap TypeTags = {}

EmptyDict == [k \in {} |-> None]

IsStr(x) == DOMAIN x = {"str"} \/ DOMAIN x = {"iso"}

\* a Decimal, an int, or text that reads as a number
IsNumber(x) == DOMAIN x \in {{"dec"}, {"int"}, {"numtext"}}

NumberOf(x) ==
    CASE DOMAIN x = {"dec"} -> x.dec
      [] DOMAIN x = {"int"} -> x.int
      [] DOMAIN x = {"numtext"} -> x.numtext

(***************************************************************************)
(* Scalar conversions.                                                     *)
(***************************************************************************)
Decimal(x) ==
    IF IsNumber(x) THEN Ok(Dec(NumberOf(x))) ELSE Raise("TypeError")

int(x) ==
    IF IsNumber(x) THEN Ok(PyInt(NumberOf(x))) ELSE Raise("TypeError")

Latitude(x) ==
    IF ~IsNumber(x) THEN Raise("TypeError")
    ELSE IF NumberOf(x) < -90 \/ NumberOf(x) > 90 THEN Raise("ValueError")
    ELSE Ok(Dec(NumberOf(x)))

Longitude(x) ==
    IF ~IsNumber(x) THEN Raise("TypeError")
    ELSE IF NumberOf(x) < -180 \/ NumberOf(x) > 180 THEN Raise("ValueError")
    ELSE Ok(Dec(NumberOf(x)))

Degrees(x) ==
    IF ~IsNumber(x) THEN Raise("TypeError")
    ELSE IF NumberOf(x) < 0 \/ NumberOf(x) >= 360 THEN Raise("ValueError")
    ELSE Ok(Dec(NumberOf(x)))

FixValues == {"none", "2d", "3d", "dgps", "pps"}

Fix(x) ==
    IF ~IsStr(x) THEN Raise("TypeError")
    ELSE IF DOMAIN x # {"str"} \/ x.str \notin FixValues
         THEN Raise("ValueError")
    ELSE Ok(x)

DGPSStation(x) ==
    IF ~IsNumber(x) THEN Raise("TypeError")
    ELSE IF NumberOf(x) < 0 \/ NumberOf(x) > 1023 THEN Raise("ValueError")
    ELSE Ok(PyInt(NumberOf(x)))

\* dateutil's isoparse takes text only; a datetime object is rejected
isoparse(x) ==
    IF DOMAIN x = {"iso"}
    THEN LET usec == IF x.iso.frac = <<>> THEN 0 ELSE x.iso.frac[1] * 1000
         IN  IF x.iso.suffix = "Z" THEN Ok(DateTime(x.iso.sec, usec))
             ELSE Ok(NaiveDateTime(x.iso.sec, usec))
    ELSE IF DOMAIN x = {"str"} THEN Raise("ValueError")
    ELSE Raise("TypeError")

(***************************************************************************)
(* utils.format_datetime                                                   *)
(***************************************************************************)
\* isoformat() with seconds, or milliseconds when dt.microsecond is not 0
\* (the microseconds below a millisecond are cut off), "+00:00" turned to "Z"
format_datetime(dt) ==
    IsoTextOf(dt.sec, IF dt.usec # 0 THEN <<dt.usec \div 1000>> ELSE <<>>,
              IF dt.tz = "UTC" THEN "Z" ELSE "")

\* str() of a Decimal or an int; a str is its own text
PyStr(x) == IF DOMAIN x \in {{"dec"}, {"int"}} THEN NumText(NumberOf(x)) ELSE x

(***************************************************************************)
(* Link                                                                    *)
(***************************************************************************)
Link_to_dict(link) ==
    [k \in {f \in {"href", "text", "type"} : link[f] # None} |-> link[k]]

Link_from_dict(d) ==
    [cls |-> "Link",
     href |-> d["href"],
     text |-> IF "text" \in DOMAIN d THEN d["text"] ELSE None,
     type |-> IF "type" \in DOMAIN d THEN d["type"] ELSE None]

MapSeq(Op(_), s) == [i \in 1..Len(s) |-> Op(s[i])]

(***************************************************************************)
(* utils.filter_geojson_properties                                         *)
(***************************************************************************)
\* any(xs) taken for bool(xs): the list is non-empty
AnyDict_NonEmptyList(xs) == Len(xs.list) > 0

\* any(xs) over a list of dicts: some dict is non-empty
AnyDict(xs) == \E i \in 1..Len(xs.list) : DOMAIN xs.list[i] # {}

DropKey(d, key) == [k \in DOMAIN d \ {key} |-> d[k]]

\* the filter without its removal of an empty "links"
filter_geojson_properties_KeepLinks(geojson_properties) ==
    [k \in {j \in DOMAIN geojson_properties : geojson_properties[j] # None}
       |-> geojson_properties[k]]

filter_geojson_properties(geojson_properties) ==
    LET notNone == [k \in {j \in DOMAIN geojson_properties :
                              geojson_properties[j] # None}
                      |-> geojson_properties[k]]
    IN  IF ~AnyDict(notNone["links"]) THEN DropKey(notNone, "links")
        ELSE notNone

(***************************************************************************)
(* Waypoint                                                                *)
(***************************************************************************)
\* the optional fields that go into the property map, in the code's order
WptPropOrder ==
    <<"time", "magvar", "geoidheight", "name", "cmt", "desc", "src", "links",
      "sym", "type", "fix", "sat", "hdop", "vdop", "pdop", "ageofdgpsdata",
      "dgpsid">>

WptPropKeys == {WptPropOrder[i] : i \in 1..Len(WptPropOrder)}

WptOptionalFields == (WptPropKeys \ {"links"}) \cup {"ele"}

Waypoint_init ==
    [cls |-> "Waypoint", lat |-> Unset, lon |-> Unset, ele |-> None,
     time |-> None, magvar |-> None, geoidheight |-> None, name |-> None,
     cmt |-> None, desc |-> None, src |-> None, links |-> <<>>,
     sym |-> None, type |-> None, fix |-> None, sat |-> None, hdop |-> None,
     vdop |-> None, pdop |-> None, ageofdgpsdata |-> None, dgpsid |-> None]

\* reading lat or lon of a waypoint that never got one is an AttributeError
HasPosition(w) == w.lat # Unset /\ w.lon # Unset

\* the coordinates with latitude first
Waypoint_geojson_coordinates_LatFirst(w) ==
    IF ~HasPosition(w) THEN Raise("AttributeError")
    ELSE IF w.ele # None THEN Ok(<<w.lat, w.lon, w.ele>>)
    ELSE Ok(<<w.lat, w.lon>>)

Waypoint_geojson_coordinates(w) ==
    IF ~HasPosition(w) THEN Raise("AttributeError")
    ELSE IF w.ele # None THEN Ok(<<w.lon, w.lat, w.ele>>)
    ELSE Ok(<<w.lon, w.lat>>)

Waypoint_geojson_properties(w) ==
    filter_geojson_properties(
        [k \in WptPropKeys |->
            IF k = "links" THEN PyList(MapSeq(Link_to_dict, w.links))
            ELSE w[k]])

Waypoint_geojson_from_coordinates(coordinates) ==
    IF Len(coordinates) < 2 \/ Len(coordinates) > 3 THEN Raise("TypeError")
    ELSE LET lon == Longitude(coordinates[1])
             lat == Latitude(coordinates[2])
             ele == IF Len(coordinates) = 3 /\ coordinates[3] # None
                    THEN Decimal(coordinates[3]) ELSE Ok(None)
         IN  IF ~lon.ok THEN lon
             ELSE IF ~lat.ok THEN lat
             ELSE IF ~ele.ok THEN ele
             ELSE Ok([Waypoint_init EXCEPT !.lon = lon.val, !.lat = lat.val,
                                           !.ele = ele.val])

\* the conversion _geojson_parse_properties applies to the value of a key
WptConvert(key, value) ==
    CASE key = "time" -> isoparse(value)
      [] key = "magvar" -> Degrees(value)
      [] key \in {"geoidheight", "hdop", "vdop", "pdop", "ageofdgpsdata"}
            -> Decimal(value)
      [] key = "fix" -> Fix(value)
      [] key = "sat" -> int(value)
      [] key = "dgpsid" -> DGPSStation(value)
      [] OTHER -> Ok(value)

Waypoint_geojson_parse_properties(w, properties) ==
    IF ~IsDict(properties) THEN Raise("AttributeError")
    ELSE LET given == {k \in (WptPropKeys \ {"links"}) \cap DOMAIN properties :
                          properties[k] # None}
             conv == [k \in given |-> WptConvert(k, properties[k])]
             failed == {i \in 1..Len(WptPropOrder) :
                          WptPropOrder[i] \in given
                          /\ ~conv[WptPropOrder[i]].ok}
             first == CHOOSE i \in failed : \A j \in failed : i <= j
             links == IF "links" \in DOMAIN properties
                      THEN MapSeq(Link_from_dict, properties["links"].list)
                      ELSE <<>>
         IN  IF failed # {} THEN conv[WptPropOrder[first]]
             ELSE Ok([f \in DOMAIN w |->
                        IF f \in given THEN conv[f].val
                        ELSE IF f = "links" THEN w.links \o links
                        ELSE w[f]])

Waypoint_from_geojson(geojson) ==
    IF IsDict(geojson) /\ "type" \in DOMAIN geojson
    THEN IF geojson["type"] = "Point"
         THEN IF "coordinates" \notin DOMAIN geojson THEN Raise("KeyError")
              ELSE Waypoint_geojson_from_coordinates(geojson["coordinates"])
         ELSE IF geojson["type"] = "Feature"
                 /\ "geometry" \notin DOMAIN geojson THEN Raise("KeyError")
         ELSE IF geojson["type"] = "Feature"
                 /\ geojson["geometry"]["type"] = "Point"
         THEN LET wpt == Waypoint_geojson_from_coordinates(
                             geojson["geometry"]["coordinates"])
              IN  IF ~wpt.ok THEN wpt
                  ELSE IF "properties" \notin DOMAIN geojson
                       THEN Raise("KeyError")
                  ELSE Waypoint_geojson_parse_properties(
                           wpt.val, geojson["properties"])
         ELSE Raise("UnsupportedGeoJSONTypeError")
    ELSE Raise("InvalidGeoJSONError")

Waypoint_to_geojson(w, type) ==
    LET coordinates == Waypoint_geojson_coordinates(w)
        properties == Waypoint_geojson_properties(w)
    IN  IF ~coordinates.ok THEN coordinates
        ELSE LET point_geojson == [type |-> "Point",
                                   coordinates |-> coordinates.val]
             IN  IF type = "Point" THEN Ok(point_geojson)
                 ELSE Ok([type |-> "Feature",
                          geometry |-> point_geojson,
                          properties |-> IF DOMAIN properties # {}
                                         THEN properties ELSE None])

(***************************************************************************)
(* Helpers over sequences and sets of numbers                              *)
(***************************************************************************)
Range(s) == {s[i] : i \in 1..Len(s)}

MinOf(S) == CHOOSE x \in S : \A y \in S : x <= y

MaxOf(S) == CHOOSE x \in S : \A y \in S : x >= y

Smaller(a, b) == IF a <= b THEN a ELSE b

\* the outcome of a loop that builds a list: the first exception raised, or
\* the list of the values
Collect(outs) ==
    LET failed == {i \in 1..Len(outs) : ~outs[i].ok}
        first == MinOf(failed)
    IN  IF failed # {} THEN outs[first]
        ELSE Ok([i \in 1..Len(outs) |-> outs[i].val])

(***************************************************************************)
(* Bounds of a point sequence (Route, TrackSegment)                        *)
(***************************************************************************)
\* (min lat, min lon, max lat, max lon) of a non-empty set of points
BoundsOf(pts) ==
    IF pts = {} THEN Raise("ValueError")
    ELSE IF \E p \in pts : ~HasPosition(p) THEN Raise("AttributeError")
    ELSE Ok(<<Dec(MinOf({p.lat.dec : p \in pts})),
              Dec(MinOf({p.lon.dec : p \in pts})),
              Dec(MaxOf({p.lat.dec : p \in pts})),
              Dec(MaxOf({p.lon.dec : p \in pts}))>>)

\* (min lon, min lat, [min ele,] max lon, max lat [, max ele])
GeoJSONBoundsOf(pts) ==
    LET bounds == BoundsOf(pts)
        eles == {p.ele.dec : p \in {q \in pts : q.ele # None}}
    IN  IF ~bounds.ok THEN bounds
        ELSE IF eles # {}
        THEN Ok(<<bounds.val[2], bounds.val[1], Dec(MinOf(eles)),
                  bounds.val[4], bounds.val[3], Dec(MaxOf(eles))>>)
        ELSE Ok(<<bounds.val[2], bounds.val[1],
                  bounds.val[4], bounds.val[3]>>)

Points_geojson_bounds(points) == GeoJSONBoundsOf(Range(points))

\* the zip that gives every point the first property map
\* a zip that raises when the two lists differ in length
PointsFromZip_Strict(coordinates, properties) ==
    IF Len(coordinates) # Len(properties) THEN Raise("ValueError")
    ELSE Collect([i \in 1..Len(coordinates) |->
                    LET pt == Waypoint_geojson_from_coordinates(
                                  coordinates[i])
                    IN  IF ~pt.ok THEN pt
                        ELSE Waypoint_geojson_parse_properties(
                                 pt.val, properties[i])])

PointsFromZip_FirstMap(coordinates, properties) ==
    Collect([i \in 1..Smaller(Len(coordinates), Len(properties)) |->
               LET pt == Waypoint_geojson_from_coordinates(coordinates[i])
               IN  IF ~pt.ok THEN pt
                   ELSE Waypoint_geojson_parse_properties(pt.val,
                                                          properties[1])])

\* the points rebuilt from a coordinate list zipped with a list of property
\* maps: as many points as the shorter list has entries
PointsFromZip(coordinates, properties) ==
    Collect([i \in 1..Smaller(Len(coordinates), Len(properties)) |->
               LET pt == Waypoint_geojson_from_coordinates(coordinates[i])
               IN  IF ~pt.ok THEN pt
                   ELSE Waypoint_geojson_parse_properties(pt.val,
                                                          properties[i])])

\* the property maps of the points of one line, one per point
CoordinatesProperties_NonEmptyOnly(points) ==
    SelectSeq([i \in 1..Len(points) |-> Waypoint_geojson_properties(points[i])],
              LAMBDA m : DOMAIN m # {})

CoordinatesProperties(points) == MapSeq(Waypoint_geojson_properties, points)

PointsFromCoordinates(coordinates) ==
    Collect([i \in 1..Len(coordinates) |->
               Waypoint_geojson_from_coordinates(coordinates[i])])

(***************************************************************************)
(* Route                                                                   *)
(***************************************************************************)
RtePropKeys == {"name", "cmt", "desc", "src", "links", "number", "type"}

Route_init ==
    [cls |-> "Route", name |-> None, cmt |-> None, desc |-> None,
     src |-> None, links |-> <<>>, number |-> None, type |-> None,
     rtepts |-> <<>>]

\* the properties of a Feature copied onto a new Route or Track
SetProperties(obj, properties) ==
    [f \in DOMAIN obj |->
        IF f \in RtePropKeys \ {"links"} /\ f \in DOMAIN properties
           /\ properties[f] # None
        THEN properties[f]
        ELSE IF f = "links" /\ "links" \in DOMAIN properties
        THEN obj.links \o MapSeq(Link_from_dict, properties["links"].list)
        ELSE obj[f]]

Route_from_geojson(geojson) ==
    IF IsDict(geojson) /\ "type" \in DOMAIN geojson
    THEN IF geojson["type"] = "LineString"
         THEN LET pts == PointsFromCoordinates(geojson["coordinates"])
              IN  IF ~pts.ok THEN pts
                  ELSE Ok([Route_init EXCEPT !.rtepts = pts.val])
         ELSE IF geojson["type"] = "Feature"
                 /\ geojson["geometry"]["type"] = "LineString"
         THEN IF "properties" \notin DOMAIN geojson THEN Raise("KeyError")
              ELSE IF ~IsDict(geojson["properties"]) THEN Raise("TypeError")
              ELSE LET properties == geojson["properties"]
                       pts == IF "coordinatesProperties" \in DOMAIN properties
                              THEN PointsFromZip(
                                     geojson["geometry"]["coordinates"],
                                     properties["coordinatesProperties"].list)
                              ELSE PointsFromCoordinates(
                                     geojson["geometry"]["coordinates"])
                   IN  IF ~pts.ok THEN pts
                       ELSE Ok(SetProperties(
                                 [Route_init EXCEPT !.rtepts = pts.val],
                                 properties))
         ELSE Raise("UnsupportedGeoJSONTypeError")
    ELSE Raise("InvalidGeoJSONError")

\* the property map of a Route or a Track, before coordinatesProperties
ContainerProperties(obj) ==
    filter_geojson_properties(
        [k \in RtePropKeys |->
            IF k = "links" THEN PyList(MapSeq(Link_to_dict, obj.links))
            ELSE obj[k]])

WithKey(d, key, value) ==
    [k \in DOMAIN d \cup {key} |-> IF k = key THEN value ELSE d[k]]

Route_to_geojson(rte, type) ==
    LET coordinates == Collect(MapSeq(Waypoint_geojson_coordinates,
                                      rte.rtepts))
        bbox == Points_geojson_bounds(rte.rtepts)
        coordinates_properties == CoordinatesProperties(rte.rtepts)
        filtered == ContainerProperties(rte)
        properties == IF AnyDict(PyList(coordinates_properties))
                      THEN WithKey(filtered, "coordinatesProperties",
                                   PyList(coordinates_properties))
                      ELSE filtered
    IN  IF ~coordinates.ok THEN coordinates
        ELSE IF ~bbox.ok THEN bbox
        ELSE LET linestring_geojson == [type |-> "LineString",
                                        bbox |-> bbox.val,
                                        coordinates |-> coordinates.val]
             IN  IF type = "LineString" THEN Ok(linestring_geojson)
                 ELSE Ok([type |-> "Feature",
                          geometry |-> linestring_geojson,
                          properties |-> IF DOMAIN properties # {}
                                         THEN properties ELSE None])

(***************************************************************************)
(* TrackSegment                                                            *)
(***************************************************************************)
TrackSegment_init == [cls |-> "TrackSegment", trkpts |-> <<>>]

TrackSegment_from_geojson(geojson) ==
    IF IsDict(geojson) /\ "type" \in DOMAIN geojson
    THEN IF geojson["type"] = "LineString"
         THEN LET pts == PointsFromCoordinates(geojson["coordinates"])
              IN  IF ~pts.ok THEN pts
                  ELSE Ok([TrackSegment_init EXCEPT !.trkpts = pts.val])
         ELSE IF geojson["type"] = "Feature"
                 /\ geojson["geometry"]["type"] = "LineString"
         THEN IF "properties" \in DOMAIN geojson
                 /\ ~IsDict(geojson["properties"]) THEN Raise("TypeError")
              ELSE LET pts ==
                         IF "properties" \in DOMAIN geojson
                            /\ "coordinatesProperties"
                                  \in DOMAIN geojson["properties"]
                         THEN PointsFromZip(
                                geojson["geometry"]["coordinates"],
                                geojson["properties"]
                                       ["coordinatesProperties"].list)
                         ELSE PointsFromCoordinates(
                                geojson["geometry"]["coordinates"])
                   IN  IF ~pts.ok THEN pts
                       ELSE Ok([TrackSegment_init EXCEPT !.trkpts = pts.val])
         ELSE Raise("UnsupportedGeoJSONTypeError")
    ELSE Raise("InvalidGeoJSONError")

TrackSegment_to_geojson(trkseg, type) ==
    LET coordinates == Collect(MapSeq(Waypoint_geojson_coordinates,
                                      trkseg.trkpts))
        bbox == Points_geojson_bounds(trkseg.trkpts)
        coordinates_properties == CoordinatesProperties(trkseg.trkpts)
        properties == IF AnyDict(PyList(coordinates_properties))
                      THEN WithKey(EmptyDict, "coordinatesProperties",
                                   PyList(coordinates_properties))
                      ELSE EmptyDict
    IN  IF ~coordinates.ok THEN coordinates
        ELSE IF ~bbox.ok THEN bbox
        ELSE LET linestring_geojson == [type |-> "LineString",
                                        bbox |-> bbox.val,
                                        coordinates |-> coordinates.val]
                 feature_geojson == [type |-> "Feature",
                                     geometry |-> linestring_geojson]
             IN  IF type = "LineString" THEN Ok(linestring_geojson)
                 ELSE IF DOMAIN properties # {}
                 THEN Ok(WithKey(feature_geojson, "properties", properties))
                 ELSE Ok(feature_geojson)

(***************************************************************************)
(* Track                                                                   *)
(***************************************************************************)
Track_init ==
    [cls |-> "Track", name |-> None, cmt |-> None, desc |-> None,
     src |-> None, links |-> <<>>, number |-> None, type |-> None,
     trksegs |-> <<>>]

\* every track point of every segment
TrackPoints(trk) ==
    UNION {Range(trk.trksegs[i].trkpts) : i \in 1..Len(trk.trksegs)}

Track_bounds(trk) == BoundsOf(TrackPoints(trk))

\* the bounds left in the order of Track.bounds, latitude first
Track_geojson_bounds_LatFirst(trk) ==
    LET bounds == Track_bounds(trk)
        eles == {p.ele.dec : p \in {q \in TrackPoints(trk) : q.ele # None}}
    IN  IF ~bounds.ok THEN bounds
        ELSE IF eles # {}
        THEN Ok(<<bounds.val[1], bounds.val[2], Dec(MinOf(eles)),
                  bounds.val[3], bounds.val[4], Dec(MaxOf(eles))>>)
        ELSE bounds

\* the box of a track, an empty tuple when the track has no point
Track_geojson_bounds_EmptyBox(trk) ==
    LET bounds == Track_bounds(trk)
        eles == {p.ele.dec : p \in {q \in TrackPoints(trk) : q.ele # None}}
    IN  IF TrackPoints(trk) = {} THEN Ok(<<>>)
        ELSE IF ~bounds.ok THEN bounds
        ELSE IF eles # {}
        THEN Ok(<<bounds.val[2], bounds.val[1], Dec(MinOf(eles)),
                  bounds.val[4], bounds.val[3], Dec(MaxOf(eles))>>)
        ELSE Ok(<<bounds.val[2], bounds.val[1],
                  bounds.val[4], bounds.val[3]>>)

Track_geojson_bounds(trk) ==
    LET bounds == Track_bounds(trk)
        eles == {p.ele.dec : p \in {q \in TrackPoints(trk) : q.ele # None}}
    IN  IF ~bounds.ok THEN bounds
        ELSE LET min_lat == bounds.val[1]
                 min_lon == bounds.val[2]
                 max_lat == bounds.val[3]
                 max_lon == bounds.val[4]
             IN  IF eles # {}
                 THEN Ok(<<min_lon, min_lat, Dec(MinOf(eles)),
                           max_lon, max_lat, Dec(MaxOf(eles))>>)
                 ELSE Ok(<<min_lon, min_lat, max_lon, max_lat>>)

SegmentOf(pts) ==
    IF ~pts.ok THEN pts ELSE Ok([TrackSegment_init EXCEPT !.trkpts = pts.val])

Track_from_geojson(geojson) ==
    IF ~IsDict(geojson) THEN Raise("TypeError")
    ELSE IF "type" \notin DOMAIN geojson THEN Raise("KeyError")
    ELSE IF geojson["type"] = "MultiLineString"
    THEN LET segs == Collect([i \in 1..Len(geojson["coordinates"]) |->
                        SegmentOf(PointsFromCoordinates(
                                    geojson["coordinates"][i]))])
         IN  IF ~segs.ok THEN segs
             ELSE Ok([Track_init EXCEPT !.trksegs = segs.val])
    ELSE IF geojson["type"] = "Feature"
            /\ geojson["geometry"]["type"] = "MultiLineString"
    THEN IF "properties" \notin DOMAIN geojson THEN Raise("KeyError")
         ELSE IF ~IsDict(geojson["properties"]) THEN Raise("TypeError")
         ELSE LET properties == geojson["properties"]
                  coords == geojson["geometry"]["coordinates"]
                  segs ==
                    IF "coordinatesProperties" \in DOMAIN properties
                    THEN LET cp == properties["coordinatesProperties"].list
                         IN  Collect([i \in 1..Smaller(Len(coords), Len(cp))
                                 |-> SegmentOf(PointsFromZip(coords[i],
                                                             cp[i]))])
                    ELSE Collect([i \in 1..Len(coords) |->
                            SegmentOf(PointsFromCoordinates(coords[i]))])
              IN  IF ~segs.ok THEN segs
                  ELSE Ok(SetProperties(
                            [Track_init EXCEPT !.trksegs = segs.val],
                            properties))
    ELSE Raise("ValueError")

Track_to_geojson(trk, type) ==
    LET coordinates ==
            Collect([i \in 1..Len(trk.trksegs) |->
                       Collect(MapSeq(Waypoint_geojson_coordinates,
                                      trk.trksegs[i].trkpts))])
        bbox == Track_geojson_bounds(trk)
        coordinates_properties ==
            [i \in 1..Len(trk.trksegs) |->
                CoordinatesProperties(trk.trksegs[i].trkpts)]
        filtered == ContainerProperties(trk)
        properties ==
            IF \E i \in 1..Len(coordinates_properties) :
                   AnyDict(PyList(coordinates_properties[i]))
            THEN WithKey(filtered, "coordinatesProperties",
                         PyList(coordinates_properties))
            ELSE filtered
    IN  IF ~coordinates.ok THEN coordinates
        ELSE IF ~bbox.ok THEN bbox
        ELSE LET multilinestring_geojson == [type |-> "MultiLineString",
                                             bbox |-> bbox.val,
                                             coordinates |-> coordinates.val]
                 feature_geojson == [type |-> "Feature",
                                     geometry |-> multilinestring_geojson]
             IN  IF type = "MultiLineString" THEN Ok(multilinestring_geojson)
                 ELSE IF DOMAIN properties # {}
                 THEN Ok(WithKey(feature_geojson, "properties", properties))
                 ELSE Ok(feature_geojson)

(***************************************************************************)
(* GPX                                                                     *)
(***************************************************************************)
GPX_init ==
    [cls |-> "GPX", creator |-> Str("PyGPX"), metadata |-> None,
     wpts |-> <<>>, rtes |-> <<>>, trks |-> <<>>]

\* a < b on Decimals, either of which may be infinite
DecLess(a, b) ==
    IF a = b THEN FALSE
    ELSE IF a = NegInfinity \/ b = Infinity THEN TRUE
    ELSE IF a = Infinity \/ b = NegInfinity THEN FALSE
    ELSE a.dec < b.dec

\* Python's min(a, b) and max(a, b): the first argument wins a tie
DecMin(a, b) == IF DecLess(b, a) THEN b ELSE a

DecMax(a, b) == IF DecLess(a, b) THEN b ELSE a

\* running extrema that start at the origin instead of the infinities
BoundsStart_Origin ==
    [min_lon |-> Dec(0), max_lon |-> Dec(0),
     min_lat |-> Dec(0), max_lat |-> Dec(0),
     min_ele |-> Dec(0), max_ele |-> Dec(0)]

\* the running (min_lon, max_lon, min_lat, max_lat, min_ele, max_ele)
BoundsStart ==
    [min_lon |-> Infinity, max_lon |-> NegInfinity,
     min_lat |-> Infinity, max_lat |-> NegInfinity,
     min_ele |-> Infinity, max_ele |-> NegInfinity]

\* one pass of the loop over the waypoints
BoundsAddWpt(acc, wpt) ==
    [min_lon |-> DecMin(acc.min_lon, wpt.lon),
     max_lon |-> DecMax(acc.max_lon, wpt.lon),
     min_lat |-> DecMin(acc.min_lat, wpt.lat),
     max_lat |-> DecMax(acc.max_lat, wpt.lat),
     min_ele |-> IF wpt.ele # None THEN DecMin(acc.min_ele, wpt.ele)
                 ELSE acc.min_ele,
     max_ele |-> IF wpt.ele # None THEN DecMax(acc.max_ele, wpt.ele)
                 ELSE acc.max_ele]

\* one pass of the loop over the routes and tracks, given its bounds tuple
BoundsAddBox(acc, b) ==
    IF Len(b) = 4
    THEN [acc EXCEPT !.min_lon = DecMin(acc.min_lon, b[1]),
                     !.max_lon = DecMax(acc.max_lon, b[3]),
                     !.min_lat = DecMin(acc.min_lat, b[2]),
                     !.max_lat = DecMax(acc.max_lat, b[4])]
    ELSE IF Len(b) = 6
    THEN [min_lon |-> DecMin(acc.min_lon, b[1]),
          max_lon |-> DecMax(acc.max_lon, b[4]),
          min_lat |-> DecMin(acc.min_lat, b[2]),
          max_lat |-> DecMax(acc.max_lat, b[5]),
          min_ele |-> DecMin(acc.min_ele, b[3]),
          max_ele |-> DecMax(acc.max_ele, b[6])]
    ELSE acc

RteOrTrkBounds(obj) ==
    IF obj.cls = "Route" THEN Points_geojson_bounds(obj.rtepts)
    ELSE Track_geojson_bounds(obj)

RECURSIVE BoundsOverWpts(_, _)
BoundsOverWpts(acc, wpts) ==
    IF wpts = <<>> THEN Ok(acc)
    ELSE IF ~HasPosition(Head(wpts)) THEN Raise("AttributeError")
    ELSE BoundsOverWpts(BoundsAddWpt(acc, Head(wpts)), Tail(wpts))

RECURSIVE BoundsOverRtesTrks(_, _)
BoundsOverRtesTrks(acc, objs) ==
    IF objs = <<>> THEN Ok(acc)
    ELSE LET b == RteOrTrkBounds(Head(objs))
         IN  IF ~b.ok THEN b
             ELSE BoundsOverRtesTrks(BoundsAddBox(acc, b.val), Tail(objs))

GPX_geojson_bounds(gpx) ==
    LET afterWpts == BoundsOverWpts(BoundsStart, gpx.wpts)
        all == IF ~afterWpts.ok THEN afterWpts
               ELSE BoundsOverRtesTrks(afterWpts.val, gpx.rtes \o gpx.trks)
    IN  IF ~all.ok THEN all
        ELSE IF all.val.min_ele = Infinity /\ all.val.max_ele = NegInfinity
        THEN Ok(<<all.val.min_lon, all.val.min_lat,
                  all.val.max_lon, all.val.max_lat>>)
        ELSE Ok(<<all.val.min_lon, all.val.min_lat, all.val.min_ele,
                  all.val.max_lon, all.val.max_lat, all.val.max_ele>>)

\* the geometry kind each class converts to and from
GeometryOf(cls) ==
    CASE cls = "Waypoint" -> "Point"
      [] cls \in {"Route", "TrackSegment"} -> "LineString"
      [] cls = "Track" -> "MultiLineString"
      [] cls = "GPX" -> "GeometryCollection"

FeatureOf(cls) == IF cls = "GPX" THEN "FeatureCollection" ELSE "Feature"

to_geojson(obj, type) ==
    CASE obj.cls = "Waypoint" -> Waypoint_to_geojson(obj, type)
      [] obj.cls = "Route" -> Route_to_geojson(obj, type)
      [] obj.cls = "TrackSegment" -> TrackSegment_to_geojson(obj, type)
      [] obj.cls = "Track" -> Track_to_geojson(obj, type)

from_geojson(cls, geojson) ==
    CASE cls = "Waypoint" -> Waypoint_from_geojson(geojson)
      [] cls = "Route" -> Route_from_geojson(geojson)
      [] cls = "TrackSegment" -> TrackSegment_from_geojson(geojson)
      [] cls = "Track" -> Track_from_geojson(geojson)

\* the collection with the tracks ahead of the waypoints and the routes
GPX_to_geojson_TracksFirst(gpx, type) ==
    LET objs == gpx.trks \o gpx.wpts \o gpx.rtes
        members == Collect([i \in 1..Len(objs) |->
                      to_geojson(objs[i],
                                 IF type = "GeometryCollection"
                                 THEN GeometryOf(objs[i].cls)
                                 ELSE "Feature")])
        bbox == GPX_geojson_bounds(gpx)
    IN  IF ~members.ok THEN members
        ELSE IF ~bbox.ok THEN bbox
        ELSE IF type = "GeometryCollection"
        THEN Ok([type |-> "GeometryCollection", bbox |-> bbox.val,
                 geometries |-> members.val])
        ELSE Ok([type |-> "FeatureCollection", bbox |-> bbox.val,
                 features |-> members.val])

GPX_to_geojson(gpx, type) ==
    LET objs == gpx.wpts \o gpx.rtes \o gpx.trks
        members == Collect([i \in 1..Len(objs) |->
                      to_geojson(objs[i],
                                 IF type = "GeometryCollection"
                                 THEN GeometryOf(objs[i].cls)
                                 ELSE "Feature")])
        bbox == GPX_geojson_bounds(gpx)
    IN  IF ~members.ok THEN members
        ELSE IF ~bbox.ok THEN bbox
        ELSE IF type = "GeometryCollection"
        THEN Ok([type |-> "GeometryCollection", bbox |-> bbox.val,
                 geometries |-> members.val])
        ELSE Ok([type |-> "FeatureCollection", bbox |-> bbox.val,
                 features |-> members.val])

(***************************************************************************)
(* The values the callers of the library supply                            *)
(***************************************************************************)
Links ==
    {[cls |-> "Link", href |-> Str("h1"), text |-> None, type |-> None],
     [cls |-> "Link", href |-> Str("h2"), text |-> Str("t"),
      type |-> Str("text/html")]}

Positions == {<<Dec(-10), Dec(5)>>, <<Dec(10), Dec(0)>>}

FieldValues(f) ==
    CASE f = "ele" -> {Dec(3), Dec(7)}
      [] f = "time" -> {DateTime(60, 0), DateTime(60, 250000)}
      [] f = "magvar" -> {Dec(90)}
      [] f = "geoidheight" -> {Dec(40)}
      [] f \in {"name", "cmt", "desc", "src", "sym", "type"} -> {Str("n")}
      [] f = "fix" -> {Str("3d")}
      [] f = "sat" -> {PyInt(4)}
      [] f \in {"hdop", "vdop", "pdop", "ageofdgpsdata"} -> {Dec(1)}
      [] f = "dgpsid" -> {PyInt(5)}
      [] f = "number" -> {PyInt(2)}

\* the points appended to routes, segments and documents
PtA == [Waypoint_init EXCEPT !.lon = Dec(-10), !.lat = Dec(5)]

PtB == [Waypoint_init EXCEPT !.lon = Dec(10), !.lat = Dec(0), !.ele = Dec(7)]

PtC == [Waypoint_init EXCEPT !.lon = Dec(0), !.lat = Dec(2), !.ele = Dec(3),
                             !.name = Str("c")]

PtD == [Waypoint_init EXCEPT !.lon = Dec(5), !.lat = Dec(-3),
                             !.time = DateTime(60, 0),
                             !.links = <<CHOOSE l \in Links : l.text = None>>]

Points == {PtA, PtB, PtC, PtD}

OptionalFields(cls) ==
    IF cls = "Waypoint" THEN WptOptionalFields ELSE RtePropKeys \ {"links"}

FieldsSet(obj) == {f \in OptionalFields(obj.cls) : obj[f] # None}

MaxFields(cls) == IF cls = "Waypoint" THEN MaxSet ELSE MaxAttrs

RECURSIVE SumSeq(_)
SumSeq(ns) == IF ns = <<>> THEN 0 ELSE Head(ns) + SumSeq(Tail(ns))

SegPts(trk) ==
    SumSeq([i \in 1..Len(trk.trksegs) |-> Len(trk.trksegs[i].trkpts)])

NumPts(obj) ==
    CASE obj.cls = "Waypoint" -> 1
      [] obj.cls = "Route" -> Len(obj.rtepts)
      [] obj.cls = "TrackSegment" -> Len(obj.trkpts)
      [] obj.cls = "Track" -> SegPts(obj)
      [] obj.cls = "GPX" ->
            Len(obj.wpts)
            + SumSeq([i \in 1..Len(obj.rtes) |-> Len(obj.rtes[i].rtepts)])
            + SumSeq([i \in 1..Len(obj.trks) |-> SegPts(obj.trks[i])])

ClassInit(cls) ==
    CASE cls = "Waypoint" -> Waypoint_init
      [] cls = "Route" -> Route_init
      [] cls = "TrackSegment" -> TrackSegment_init
      [] cls = "Track" -> Track_init
      [] cls = "GPX" -> GPX_init

Classes == {"Waypoint", "Route", "TrackSegment", "Track", "GPX"}

\* no call has returned since the entity last changed
NoRet == [op |-> "none"]

(***************************************************************************)
(* GeoJSON values given to from_geojson                                    *)
(***************************************************************************)
SeqsUpTo(S, n) == UNION {[1..k -> S] : k \in 0..n}

InPositions == {<<Dec(1), Dec(2)>>, <<Dec(3), Dec(4), Dec(6)>>}

InProperties == {EmptyDict, [name |-> Str("n"), sat |-> PyInt(4)]}

InLines == SeqsUpTo(InPositions, MaxInPts)

InLineProperties == SeqsUpTo(InProperties, MaxInPts)

\* values that are no mapping, and mappings with no "type"
NotGeoJSON ==
    {None, Str("Point"), PyInt(1), PyList(<<>>), EmptyDict,
     [coordinates |-> <<Dec(1), Dec(2)>>]}

OtherGeometries(cls) ==
    {"Point", "LineString", "MultiLineString", "Polygon"} \ {GeometryOf(cls)}

\* geometries and features of a kind the class does not accept
WrongKind(cls) ==
    {[type |-> t, coordinates |-> <<>>] : t \in OtherGeometries(cls)}
    \cup {[type |-> "Feature",
           geometry |-> [type |-> t, coordinates |-> <<>>],
           properties |-> EmptyDict] : t \in OtherGeometries(cls)}
    \cup {[type |-> "FeatureCollection", features |-> <<>>]}

PointInputs ==
    {[type |-> "Point", coordinates |-> c] : c \in InPositions}
    \cup {[type |-> "Feature",
           geometry |-> [type |-> "Point", coordinates |-> c],
           properties |-> p] : c \in InPositions, p \in InProperties \cup {None}}

LineInputs ==
    {[type |-> "LineString", coordinates |-> l] : l \in InLines}
    \cup {[type |-> "Feature",
           geometry |-> [type |-> "LineString", coordinates |-> l],
           properties |-> EmptyDict] : l \in InLines}
    \cup {[type |-> "Feature",
           geometry |-> [type |-> "LineString", coordinates |-> l],
           properties |-> [coordinatesProperties |-> PyList(cp)]] :
             l \in InLines, cp \in InLineProperties}

MultiLineInputs ==
    LET lines == SeqsUpTo(InLines, MaxInSegs)
    IN  {[type |-> "MultiLineString", coordinates |-> m] : m \in lines}
        \cup {[type |-> "Feature",
               geometry |-> [type |-> "MultiLineString", coordinates |-> m],
               properties |-> EmptyDict] : m \in lines}
        \cup {[type |-> "Feature",
               geometry |-> [type |-> "MultiLineString", coordinates |-> m],
               properties |-> [coordinatesProperties |-> PyList(cp)]] :
                 m \in lines, cp \in SeqsUpTo(InLineProperties, MaxInSegs)}

WaypointInputs == NotGeoJSON \cup WrongKind("Waypoint") \cup PointInputs

RouteInputs == NotGeoJSON \cup WrongKind("Route") \cup LineInputs

TrackInputs == NotGeoJSON \cup WrongKind("Track") \cup MultiLineInputs

Inputs(cls) ==
    CASE cls = "Waypoint" -> WaypointInputs
      [] cls \in {"Route", "TrackSegment"} -> RouteInputs
      [] cls = "Track" -> TrackInputs

(***************************************************************************)
(* The state: the entity a caller holds, and what the last call returned   *)
(***************************************************************************)
Init ==
    /\ self \in {ClassInit(cls) : cls \in Classes}
    /\ ret = NoRet
    /\ written = EmptyDict

\* wpt.lon = Longitude(..); wpt.lat = Latitude(..)
SetPosition(lon, lat) ==
    /\ self.cls = "Waypoint"
    /\ self' = [self EXCEPT !.lon = lon, !.lat = lat]
    /\ ret' = NoRet
    /\ UNCHANGED written

\* obj.<field> = value, for an optional field of a Waypoint, Route or Track
SetAttr(f, v) ==
    /\ self.cls \in {"Waypoint", "Route", "Track"}
    /\ f \in OptionalFields(self.cls)
    /\ v \in FieldValues(f) \cup {None}
    /\ self[f] # v
    /\ Cardinality(FieldsSet([self EXCEPT ![f] = v])) <= MaxFields(self.cls)
    /\ self' = [self EXCEPT ![f] = v]
    /\ ret' = NoRet
    /\ UNCHANGED written

\* obj.links.append(link)
AppendLink(link) ==
    /\ self.cls \in {"Waypoint", "Route", "Track"}
    /\ Len(self.links) < MaxLinks
    /\ self' = [self EXCEPT !.links = Append(@, link)]
    /\ ret' = NoRet
    /\ UNCHANGED written

\* rte.rtepts.append(pt), trkseg.trkpts.append(pt)
AppendPoint(pt) ==
    /\ self.cls \in {"Route", "TrackSegment"}
    /\ NumPts(self) < MaxPts
    /\ self' = IF self.cls = "Route"
               THEN [self EXCEPT !.rtepts = Append(@, pt)]
               ELSE [self EXCEPT !.trkpts = Append(@, pt)]
    /\ ret' = NoRet
    /\ UNCHANGED written

\* trk.trksegs.append(TrackSegment())
AppendSegment ==
    /\ self.cls = "Track"
    /\ Len(self.trksegs) < MaxSegs
    /\ self' = [self EXCEPT !.trksegs = Append(@, TrackSegment_init)]
    /\ ret' = NoRet
    /\ UNCHANGED written

\* trk.trksegs[i].trkpts.append(pt)
AppendTrackPoint(i, pt) ==
    /\ self.cls = "Track"
    /\ i \in 1..Len(self.trksegs)
    /\ NumPts(self) < MaxPts
    /\ self' = [self EXCEPT !.trksegs[i].trkpts = Append(@, pt)]
    /\ ret' = NoRet
    /\ UNCHANGED written

\* gpx.wpts.append(pt)
GpxAppendWaypoint(pt) ==
    /\ self.cls = "GPX"
    /\ Len(self.wpts) < MaxWpts
    /\ NumPts(self) < MaxPts
    /\ self' = [self EXCEPT !.wpts = Append(@, pt)]
    /\ ret' = NoRet
    /\ UNCHANGED written

\* gpx.rtes.append(Route())
GpxAppendRoute ==
    /\ self.cls = "GPX"
    /\ Len(self.rtes) < MaxRtes
    /\ self' = [self EXCEPT !.rtes = Append(@, Route_init)]
    /\ ret' = NoRet
    /\ UNCHANGED written

\* gpx.rtes[r].rtepts.append(pt)
GpxAppendRoutePoint(r, pt) ==
    /\ self.cls = "GPX"
    /\ r \in 1..Len(self.rtes)
    /\ NumPts(self) < MaxPts
    /\ self' = [self EXCEPT !.rtes[r].rtepts = Append(@, pt)]
    /\ ret' = NoRet
    /\ UNCHANGED written

\* gpx.trks.append(Track())
GpxAppendTrack ==
    /\ self.cls = "GPX"
    /\ Len(self.trks) < MaxTrks
    /\ self' = [self EXCEPT !.trks = Append(@, Track_init)]
    /\ ret' = NoRet
    /\ UNCHANGED written

\* gpx.trks[t].trksegs.append(TrackSegment())
GpxAppendSegment(t) ==
    /\ self.cls = "GPX"
    /\ t \in 1..Len(self.trks)
    /\ Len(self.trks[t].trksegs) < MaxSegs
    /\ self' = [self EXCEPT !.trks[t].trksegs = Append(@, TrackSegment_init)]
    /\ ret' = NoRet
    /\ UNCHANGED written

\* gpx.trks[t].trksegs[i].trkpts.append(pt)
GpxAppendTrackPoint(t, i, pt) ==
    /\ self.cls = "GPX"
    /\ t \in 1..Len(self.trks)
    /\ i \in 1..Len(self.trks[t].trksegs)
    /\ NumPts(self) < MaxPts
    /\ self' = [self EXCEPT !.trks[t].trksegs[i].trkpts = Append(@, pt)]
    /\ ret' = NoRet
    /\ UNCHANGED written

\* obj.to_geojson(type)
ToGeoJSON(type) ==
    /\ type \in {GeometryOf(self.cls), FeatureOf(self.cls)}
    /\ ret' = [op |-> "to_geojson", type |-> type,
               out |-> IF self.cls = "GPX" THEN GPX_to_geojson(self, type)
                       ELSE to_geojson(self, type)]
    /\ UNCHANGED <<self, written>>

\* type(obj).from_geojson(obj.to_geojson("Feature"))
RoundTrip ==
    /\ self.cls # "GPX"
    /\ ret' = [op |-> "round_trip",
               out |-> LET geojson == to_geojson(self, "Feature")
                       IN  IF ~geojson.ok THEN geojson
                           ELSE from_geojson(self.cls, geojson.val)]
    /\ UNCHANGED <<self, written>>

\* cls.from_geojson(geojson): a class method, whose result depends on no
\* entity held, so it is taken as the first call on a fresh one
FromGeoJSON(cls) ==
    /\ self = ClassInit(cls)
    /\ ret = NoRet
    /\ \E geojson \in Inputs(cls) :
         ret' = [op |-> "from_geojson", arg |-> geojson,
                 out |-> from_geojson(cls, geojson)]
    /\ UNCHANGED <<self, written>>

\* obj._geojson_bounds
GeoJSONBounds ==
    /\ self.cls # "Waypoint"
    /\ ret' = [op |-> "_geojson_bounds",
               out |-> CASE self.cls = "Route"
                               -> Points_geojson_bounds(self.rtepts)
                         [] self.cls = "TrackSegment"
                               -> Points_geojson_bounds(self.trkpts)
                         [] self.cls = "Track" -> Track_geojson_bounds(self)
                         [] self.cls = "GPX" -> GPX_geojson_bounds(self)]
    /\ UNCHANGED <<self, written>>

\* trk.bounds
Bounds ==
    /\ self.cls = "Track"
    /\ ret' = [op |-> "bounds", out |-> Track_bounds(self)]
    /\ UNCHANGED <<self, written>>

Next ==
    \/ \E pos \in Positions : SetPosition(pos[1], pos[2])
    \/ \E f \in OptionalFields("Waypoint") \cup OptionalFields("Route") :
         \E v \in FieldValues(f) \cup {None} : SetAttr(f, v)
    \/ \E link \in Links : AppendLink(link)
    \/ \E pt \in Points : AppendPoint(pt)
    \/ AppendSegment
    \/ \E i \in 1..MaxSegs, pt \in Points : AppendTrackPoint(i, pt)
    \/ \E pt \in Points : GpxAppendWaypoint(pt)
    \/ GpxAppendTrack
    \/ \E t \in 1..MaxTrks : GpxAppendSegment(t)
    \/ \E t \in 1..MaxTrks, i \in 1..MaxSegs, pt \in Points :
         GpxAppendTrackPoint(t, i, pt)
    \/ GpxAppendRoute
    \/ \E r \in 1..MaxRtes, pt \in Points : GpxAppendRoutePoint(r, pt)
    \/ \E type \in {"Point", "LineString", "MultiLineString", "Feature",
                    "GeometryCollection", "FeatureCollection"} :
         ToGeoJSON(type)
    \/ RoundTrip
    \/ \E cls \in Classes \ {"GPX"} : FromGeoJSON(cls)
    \/ GeoJSONBounds
    \/ Bounds

Spec == Init /\ [][Next]_vars

(***************************************************************************)
(* What the claims speak of, stated from the entity alone                  *)
(***************************************************************************)
Returned(op) == ret.op = op /\ ret.out.ok

\* the coordinate tuple a point is expected to give
ExpectedPosition(p) ==
    IF p.ele # None THEN <<p.lon, p.lat, p.ele>> ELSE <<p.lon, p.lat>>

\* the non-geometric optional fields a point has a value for
ExpectedKeys(obj) ==
    (FieldsSet(obj) \ {"ele"})
    \cup (IF Len(obj.links) > 0 THEN {"links"} ELSE {})

\* the property map of a Feature, empty when it has none
PropertiesOf(feature) ==
    IF "properties" \in DOMAIN feature /\ IsDict(feature["properties"])
    THEN feature["properties"] ELSE EmptyDict

GeometryIn(geojson) ==
    IF geojson["type"] = "Feature" THEN geojson["geometry"] ELSE geojson

\* the point sequences of a Route, TrackSegment or Track, one per line
LinesOf(obj) ==
    CASE obj.cls = "Route" -> <<obj.rtepts>>
      [] obj.cls = "TrackSegment" -> <<obj.trkpts>>
      [] obj.cls = "Track" ->
            [i \in 1..Len(obj.trksegs) |-> obj.trksegs[i].trkpts]

\* a list of lines, whether the value holds one line or several
AsLines(cls, value) == IF cls = "Track" THEN value ELSE <<value>>

AllPoints(obj) == UNION {Range(LinesOf(obj)[i]) : i \in 1..Len(LinesOf(obj))}

IsLineEntity == self.cls \in {"Route", "TrackSegment", "Track"}

\* C1: for every Waypoint, Route and Track that has a position (at least
\* one point), whatever optional fields are set, from_geojson of its Feature
\* returns an entity equal to it field for field.
C1_RoundTripIdentity ==
    (/\ ret.op = "round_trip"
     /\ self.cls \in {"Waypoint", "Route", "Track"}
     /\ IF self.cls = "Waypoint" THEN HasPosition(self) ELSE NumPts(self) > 0)
    => ret.out = Ok(self)

\* C2: the coordinate tuple of a point is (lon, lat, ele) if and only if ele
\* is set and (lon, lat) otherwise, longitude first; the coordinates of a
\* Route, TrackSegment or Track hold one such tuple per point, in point order.
C2_CoordinateTuples ==
    Returned("to_geojson") /\ self.cls # "GPX" =>
        LET coordinates == GeometryIn(ret.out.val)["coordinates"]
        IN  IF self.cls = "Waypoint"
            THEN coordinates = ExpectedPosition(self)
            ELSE LET lines == AsLines(self.cls, coordinates)
                 IN  /\ Len(lines) = Len(LinesOf(self))
                     /\ \A i \in 1..Len(lines) :
                          /\ Len(lines[i]) = Len(LinesOf(self)[i])
                          /\ \A j \in 1..Len(lines[i]) :
                               lines[i][j] = ExpectedPosition(LinesOf(self)[i][j])

\* C2 witness: a line whose coordinates mix a 2-tuple and a 3-tuple
C2_Witness ==
    /\ Returned("to_geojson")
    /\ self.cls \in {"Route", "TrackSegment"}
    /\ \E i, j \in 1..Len(GeometryIn(ret.out.val)["coordinates"]) :
         /\ Len(GeometryIn(ret.out.val)["coordinates"][i]) = 2
         /\ Len(GeometryIn(ret.out.val)["coordinates"][j]) = 3

\* C3 as stated: the property map of a Waypoint, Route or Track has a key
\* exactly for each optional field that is not None ("ele" among them), and
\* the key "links" if and only if the entity has at least one link.
C3_AsStated ==
    (/\ Returned("to_geojson")
     /\ ret.type = "Feature"
     /\ self.cls \in {"Waypoint", "Route", "Track"}) =>
        DOMAIN PropertiesOf(ret.out.val) \ {"coordinatesProperties"}
            = FieldsSet(self)
                \cup (IF Len(self.links) > 0 THEN {"links"} ELSE {})

\* C3: the property map of a Waypoint, Route or Track has a key exactly for
\* each optional field other than "ele" that is not None ("ele" is carried by
\* the coordinate tuple and never by the map), with the field's value, and
\* the key "links" if and only if the entity has at least one link, then
\* with one element per link.
C3_PropertyKeys ==
    (/\ Returned("to_geojson")
     /\ ret.type = "Feature"
     /\ self.cls \in {"Waypoint", "Route", "Track"}) =>
        LET properties == PropertiesOf(ret.out.val)
        IN  /\ DOMAIN properties \ {"coordinatesProperties"}
                 = ExpectedKeys(self)
            /\ "ele" \notin DOMAIN properties
            /\ \A k \in ExpectedKeys(self) \ {"links"} :
                 properties[k] = self[k]
            /\ "links" \in DOMAIN properties =>
                 Len(properties["links"].list) = Len(self.links)

\* C3 witness: a waypoint with an elevation, one link and one more field set
C3_Witness ==
    /\ Returned("to_geojson")
    /\ ret.type = "Feature"
    /\ self.cls = "Waypoint"
    /\ Len(self.links) = 1
    /\ self.ele # None
    /\ FieldsSet(self) \ {"ele"} # {}
    /\ Len(PropertiesOf(ret.out.val)["links"].list) = 1

\* C4: the Feature of a Route, TrackSegment or Track has the property
\* "coordinatesProperties" if and only if at least one of its points has a
\* non-empty property map.
C4_CoordinatesPropertiesPresence ==
    Returned("to_geojson") /\ ret.type = "Feature" /\ IsLineEntity =>
        ("coordinatesProperties" \in DOMAIN PropertiesOf(ret.out.val)
           <=> \E p \in AllPoints(self) : ExpectedKeys(p) # {})

\* C4 witness: points, none with a property, and no entry
C4_Witness ==
    /\ Returned("to_geojson")
    /\ ret.type = "Feature"
    /\ IsLineEntity
    /\ Cardinality(AllPoints(self)) >= 2
    /\ "coordinatesProperties" \notin DOMAIN PropertiesOf(ret.out.val)

\* C5: "coordinatesProperties", when emitted, is aligned with the
\* coordinates: one list per line (the list itself for a Route or a
\* TrackSegment), as long as the line's coordinates, whose entry i is the
\* property map of point i (empty if and only if the point has no property).
C5_CoordinatesPropertiesAligned ==
    (/\ Returned("to_geojson")
     /\ ret.type = "Feature"
     /\ IsLineEntity
     /\ "coordinatesProperties" \in DOMAIN PropertiesOf(ret.out.val)) =>
        LET cp == AsLines(self.cls,
                          PropertiesOf(ret.out.val)
                              ["coordinatesProperties"].list)
            coordinates == AsLines(self.cls,
                                   ret.out.val["geometry"]["coordinates"])
        IN  /\ Len(cp) = Len(LinesOf(self))
            /\ \A i \in 1..Len(cp) :
                 /\ Len(cp[i]) = Len(coordinates[i])
                 /\ Len(cp[i]) = Len(LinesOf(self)[i])
                 /\ \A j \in 1..Len(cp[i]) :
                      /\ DOMAIN cp[i][j] = ExpectedKeys(LinesOf(self)[i][j])
                      /\ \A k \in DOMAIN cp[i][j] \ {"links"} :
                           cp[i][j][k] = LinesOf(self)[i][j][k]

\* C5 witness: a segment of three points, not all of which have properties
C5_Witness ==
    /\ Returned("to_geojson")
    /\ ret.type = "Feature"
    /\ self.cls = "TrackSegment"
    /\ Len(self.trkpts) = 3
    /\ ExpectedKeys(self.trkpts[1]) = {}
    /\ ExpectedKeys(self.trkpts[2]) # {}
    /\ Len(PropertiesOf(ret.out.val)["coordinatesProperties"].list) = 3

\* the point expected from a coordinate tuple and a property map
ExpectedPoint(c, m) ==
    [f \in DOMAIN Waypoint_init |->
        CASE f = "lon" -> c[1]
          [] f = "lat" -> c[2]
          [] f = "ele" -> IF Len(c) = 3 THEN c[3] ELSE None
          [] OTHER -> IF f \in DOMAIN m THEN m[f] ELSE Waypoint_init[f]]

FeatureGiven ==
    /\ Returned("from_geojson")
    /\ IsLineEntity
    /\ IsDict(ret.arg)
    /\ "type" \in DOMAIN ret.arg
    /\ ret.arg["type"] = "Feature"

\* C6: from_geojson of a Feature for a Route, TrackSegment or Track builds
\* point i from coordinate tuple i and property map i when
\* "coordinatesProperties" is given, and otherwise one point per coordinate
\* tuple, in order, with lon, lat and (given a third value) ele only.
C6_PointsFromFeature ==
    FeatureGiven =>
        LET given == AsLines(self.cls, ret.arg["geometry"]["coordinates"])
            built == LinesOf(ret.out.val)
        IN  IF "coordinatesProperties" \in DOMAIN PropertiesOf(ret.arg)
            THEN LET cp == AsLines(self.cls,
                                   ret.arg["properties"]
                                       ["coordinatesProperties"].list)
                 IN  /\ Len(built) = Smaller(Len(given), Len(cp))
                     /\ \A i \in 1..Len(built) :
                          /\ Len(built[i])
                               = Smaller(Len(given[i]), Len(cp[i]))
                          /\ \A j \in 1..Len(built[i]) :
                               built[i][j]
                                 = ExpectedPoint(given[i][j], cp[i][j])
            ELSE /\ Len(built) = Len(given)
                 /\ \A i \in 1..Len(built) :
                      /\ Len(built[i]) = Len(given[i])
                      /\ \A j \in 1..Len(built[i]) :
                           built[i][j] = ExpectedPoint(given[i][j], EmptyDict)

\* C6 witness: two points built from two tuples and two different maps
C6_Witness ==
    /\ FeatureGiven
    /\ self.cls = "Route"
    /\ "coordinatesProperties" \in DOMAIN PropertiesOf(ret.arg)
    /\ Len(ret.out.val.rtepts) = 2
    /\ ret.out.val.rtepts[1].name # None
    /\ ret.out.val.rtepts[2].name = None
    /\ ret.out.val.rtepts[1].ele # ret.out.val.rtepts[2].ele

\* a mapping whose "type", or whose geometry's "type" when it is a Feature,
\* is a geometry kind the class does not accept
WrongKindGiven ==
    /\ ret.op = "from_geojson"
    /\ IsDict(ret.arg)
    /\ "type" \in DOMAIN ret.arg
    /\ \/ ret.arg["type"] \in OtherGeometries(self.cls)
       \/ /\ ret.arg["type"] = "Feature"
          /\ ret.arg["geometry"]["type"] \in OtherGeometries(self.cls)

\* C7: from_geojson of a Waypoint, Route or Track, given a geometry of a kind
\* it does not accept, or a Feature around one, raises
\* UnsupportedGeoJSONTypeError and no other error.
C7_UnsupportedGeometryError ==
    WrongKindGiven /\ self.cls \in {"Waypoint", "Route", "Track"}
        => ret.out = Raise("UnsupportedGeoJSONTypeError")

\* C8: from_geojson of a Waypoint, Route, TrackSegment or Track, given a
\* value that is no mapping or a mapping with no "type", raises
\* InvalidGeoJSONError.
C8_InvalidDocumentError ==
    (/\ ret.op = "from_geojson"
     /\ ~(IsDict(ret.arg) /\ "type" \in DOMAIN ret.arg))
        => ret.out = Raise("InvalidGeoJSONError")

\* (min lon, min lat, [min ele,] max lon, max lat [, max ele]) of a set of
\* points: six components if and only if some point has an elevation
ExpectedBox(pts) ==
    LET lons == {p.lon.dec : p \in pts}
        lats == {p.lat.dec : p \in pts}
        eles == {p.ele.dec : p \in {q \in pts : q.ele # None}}
    IN  IF eles = {}
        THEN <<Dec(MinOf(lons)), Dec(MinOf(lats)),
               Dec(MaxOf(lons)), Dec(MaxOf(lats))>>
        ELSE <<Dec(MinOf(lons)), Dec(MinOf(lats)), Dec(MinOf(eles)),
               Dec(MaxOf(lons)), Dec(MaxOf(lats)), Dec(MaxOf(eles))>>

DocumentPoints(gpx) ==
    Range(gpx.wpts)
    \cup UNION {Range(gpx.rtes[i].rtepts) : i \in 1..Len(gpx.rtes)}
    \cup UNION {TrackPoints(gpx.trks[i]) : i \in 1..Len(gpx.trks)}

\* C9: for a document with at least one point, GPX._geojson_bounds is the
\* box of all its waypoints, route points and track points: four components
\* when no point has an elevation, six as soon as one has.
C9_DocumentBounds ==
    (/\ ret.op = "_geojson_bounds"
     /\ self.cls = "GPX"
     /\ DocumentPoints(self) # {})
        => ret.out = Ok(ExpectedBox(DocumentPoints(self)))

\* C10: for a Track with at least one point, _geojson_bounds is the box of
\* the points of all its segments, longitude before latitude, with the
\* elevation extrema when some point has an elevation, while bounds is
\* (min lat, min lon, max lat, max lon).
C10_TrackBounds ==
    self.cls = "Track" /\ TrackPoints(self) # {} =>
        /\ ret.op = "_geojson_bounds"
             => ret.out = Ok(ExpectedBox(TrackPoints(self)))
        /\ ret.op = "bounds"
             => ret.out =
                  Ok(<<Dec(MinOf({p.lat.dec : p \in TrackPoints(self)})),
                       Dec(MinOf({p.lon.dec : p \in TrackPoints(self)})),
                       Dec(MaxOf({p.lat.dec : p \in TrackPoints(self)})),
                       Dec(MaxOf({p.lon.dec : p \in TrackPoints(self)}))>>)

\* C10 witness: the six components of a track of two segments, one of whose
\* points has no elevation
C10_Witness ==
    /\ Returned("_geojson_bounds")
    /\ self.cls = "Track"
    /\ Len(self.trksegs) = 2
    /\ \A i \in 1..2 : self.trksegs[i].trkpts # <<>>
    /\ \E p \in TrackPoints(self) : p.ele = None
    /\ Len(ret.out.val) = 6
    /\ ret.out.val[1] # ret.out.val[2]

\* the coordinates an entity is expected to give: a position, a list of
\* positions, or one list of positions per segment
ExpectedCoordinates(obj) ==
    CASE obj.cls = "Waypoint" -> ExpectedPosition(obj)
      [] obj.cls = "Route" ->
            [j \in 1..Len(obj.rtepts) |-> ExpectedPosition(obj.rtepts[j])]
      [] obj.cls = "Track" ->
            [i \in 1..Len(obj.trksegs) |->
               [j \in 1..Len(obj.trksegs[i].trkpts) |->
                  ExpectedPosition(obj.trksegs[i].trkpts[j])]]

CollectionReturned(type) ==
    /\ Returned("to_geojson")
    /\ self.cls = "GPX"
    /\ ret.type = type

ProxyFields ==
    {"name", "desc", "author", "copyright", "links", "time", "keywords",
     "bounds"}

\* Metadata(): every field absent, the links an empty list
Metadata_init ==
    [cls |-> "Metadata", name |-> None, desc |-> None, author |-> None,
     copyright |-> None, links |-> PyList(<<>>), time |-> None,
     keywords |-> None, bounds |-> None]

\* the getter of a proxy field
GPX_proxy_get(gpx, f) ==
    IF gpx.metadata # None THEN gpx.metadata[f] ELSE None

\* a setter that allocates a Metadata on every write
GPX_proxy_set_Replace(gpx, f, value) ==
    [gpx EXCEPT !.metadata = [Metadata_init EXCEPT ![f] = value]]

\* the setter of a proxy field
GPX_proxy_set(gpx, f, value) ==
    LET metadata == IF gpx.metadata = None THEN Metadata_init
                    ELSE gpx.metadata
    IN  [gpx EXCEPT !.metadata = [metadata EXCEPT ![f] = value]]

\* the values a caller assigns to a proxy field
ProxyValues(f) ==
    CASE f = "name" -> {Str("a"), Str("b")}
      [] f = "desc" -> {Str("d")}
      [] f = "author" ->
            {[cls |-> "Person", name |-> Str("p"), email |-> None,
              link |-> None]}
      [] f = "copyright" ->
            {[cls |-> "Copyright", author |-> Str("p"), year |-> None,
              license |-> None]}
      [] f = "links" -> {PyList(<<l>>) : l \in Links}
      [] f = "time" -> {DateTime(60, 0)}
      [] f = "keywords" -> {Str("k")}
      [] f = "bounds" ->
            {[cls |-> "Bounds", minlat |-> Dec(0), minlon |-> Dec(-10),
              maxlat |-> Dec(5), maxlon |-> Dec(10)]}

InitMeta ==
    /\ self = GPX_init
    /\ ret = NoRet
    /\ written = EmptyDict

\* gpx.<field> = value
ProxyWrite(f, value) ==
    /\ self' = GPX_proxy_set(self, f, value)
    /\ ret' = NoRet
    /\ written' = [k \in DOMAIN written \cup {f} |->
                      IF k = f THEN value ELSE written[k]]

\* gpx.<field>
ProxyRead(f) ==
    /\ ret' = [op |-> "proxy_read", field |-> f,
               out |-> Ok(GPX_proxy_get(self, f))]
    /\ UNCHANGED <<self, written>>

NextMeta ==
    \/ \E f \in ProxyFields : \E value \in ProxyValues(f) :
         ProxyWrite(f, value)
    \/ \E f \in ProxyFields : ProxyRead(f)

SpecMeta == InitMeta /\ [][NextMeta]_vars

\* the value last written to a proxy field, or the given one if none was
LastWritten(f, otherwise) ==
    IF f \in DOMAIN written THEN written[f] ELSE otherwise

\* C12 as stated: metadata is absent if and only if no proxy field was
\* written, and a proxy read returns the value last written to the field,
\* or None if the field was never written.
C12_AsStated ==
    /\ self.metadata = None <=> DOMAIN written = {}
    /\ ret.op = "proxy_read"
         => ret.out = Ok(LastWritten(ret.field, None))

\* C12: metadata is absent if and only if no proxy field was written (a read
\* never allocates it); once allocated it keeps every field written before
\* (no later write replaces it); a proxy read returns the value last written
\* to the field, or, if the field was never written, None, except that
\* "links" reads as the empty list as soon as some proxy field was written.
C12_LazyMetadata ==
    LET unwritten(f) == IF f = "links" /\ DOMAIN written # {}
                        THEN PyList(<<>>) ELSE None
    IN  /\ self.metadata = None <=> DOMAIN written = {}
        /\ self.metadata # None =>
              \A f \in ProxyFields :
                 self.metadata[f] = LastWritten(f, unwritten(f))
        /\ ret.op = "proxy_read"
             => ret.out = Ok(LastWritten(ret.field, unwritten(ret.field)))

\* C12 witness: the name read back after the name was written twice and
\* the description once
C12_Witness ==
    /\ ret.op = "proxy_read"
    /\ ret.field = "name"
    /\ DOMAIN written = {"name", "desc"}
    /\ ret.out = Ok(Str("b"))
    /\ self.metadata.desc = Str("d")

(***************************************************************************)
(* Numbers of the statistics: timedelta, float and Decimal quotients       *)
(***************************************************************************)
Abs(n) == IF n < 0 THEN -n ELSE n

RECURSIVE Gcd(_, _)
Gcd(a, b) == IF b = 0 THEN a ELSE Gcd(b, a % b)

\* timedelta, in microseconds
Timedelta(us) == [timedelta |-> us]

\* the quotient n / d (d # 0) in lowest terms with a positive denominator
Ratio(n, d) ==
    LET g == Gcd(Abs(n), Abs(d))
        sign == IF d < 0 THEN -1 ELSE 1
    IN  [num |-> sign * (n \div g), den |-> Abs(d) \div g]

RatLess(a, b) == a.num * b.den < b.num * a.den

\* other - self on datetimes: defined between two aware or two naive ones
DateTimeSub(other, self_) ==
    IF (other.tz = "naive") # (self_.tz = "naive") THEN Raise("TypeError")
    ELSE Ok(Timedelta((other.sec - self_.sec) * 1000000
                      + (other.usec - self_.usec)))

(***************************************************************************)
(* float(Decimal)                                                          *)
(***************************************************************************)
E8 == 100000000

\* a whole Decimal of more than eight digits: hi * 10^8 + lo, hi > 0
BigDec(hi, lo) == [dechi |-> hi, declo |-> lo]

\* 2^53 = 90071992 * 10^8 + 54740992; a float holds every whole number up
\* to it
Pow53Hi == 90071992

Pow53Lo == 54740992

\* a binary float of whole value hi * 10^8 + lo (lo carries the sign when
\* hi is 0)
Float(hi, lo) ==
    IF lo >= E8 THEN [float |-> [hi |-> hi + 1, lo |-> lo - E8]]
    ELSE [float |-> [hi |-> hi, lo |-> lo]]

\* a Decimal a little above a whole number: whole + e20 * 10^-20, for a
\* whole number that is not 0 and less than 5551 units of 10^-20, which is
\* below half the gap between the float of the whole number and the next
TinyDec(whole, e20) == [decwhole |-> whole, dece20 |-> e20]

IsDecimal(x) ==
    DOMAIN x \in {{"dec"}, {"dechi", "declo"}, {"decwhole", "dece20"}}

\* float(Decimal), the nearest float: a Decimal a little above a whole
\* number gives the whole number; a whole value is exact up to 2^53; above it
\* only even values exist, and an odd one goes to the neighbour whose
\* mantissa is even (round half to even), the multiple of 4
float(x) ==
    IF DOMAIN x = {"dec"} THEN Float(0, x.dec)
    ELSE IF DOMAIN x = {"decwhole", "dece20"} THEN Float(0, x.decwhole)
    ELSE LET above == \/ x.dechi > Pow53Hi
                      \/ x.dechi = Pow53Hi /\ x.declo > Pow53Lo
         IN  IF ~above \/ x.declo % 2 = 0 THEN Float(x.dechi, x.declo)
             ELSE IF (x.declo + 1) % 4 = 0 THEN Float(x.dechi, x.declo + 1)
             ELSE Float(x.dechi, x.declo - 1)

(***************************************************************************)
(* Waypoint: distance_to, duration_to, speed_to, gain_to                   *)
(***************************************************************************)
\* The haversine distance in units of one degree of arc (radius * pi / 180
\* metres, 111,319.49 m at the default radius), for two positions on one
\* meridian or both on the equator, where the central angle of the formula
\* is the difference in latitude, or in longitude the short way around.
\* radians() takes the float of the Decimal; here it is a whole number of
\* degrees
FloatDegrees(x) == float(x).float.lo

\* a distance that keeps the sign of the difference
Waypoint_distance_to_Signed(self_, other) ==
    CASE FloatDegrees(self_.lon) = FloatDegrees(other.lon) ->
            FloatDegrees(other.lat) - FloatDegrees(self_.lat)
      [] FloatDegrees(self_.lon) # FloatDegrees(other.lon)
         /\ FloatDegrees(self_.lat) = 0 /\ FloatDegrees(other.lat) = 0 ->
            LET d == FloatDegrees(other.lon) - FloatDegrees(self_.lon)
            IN  IF d > 180 THEN 360 - d ELSE d

Waypoint_distance_to(self_, other) ==
    CASE FloatDegrees(self_.lon) = FloatDegrees(other.lon) ->
            Abs(FloatDegrees(other.lat) - FloatDegrees(self_.lat))
      [] FloatDegrees(self_.lon) # FloatDegrees(other.lon)
         /\ FloatDegrees(self_.lat) = 0 /\ FloatDegrees(other.lat) = 0 ->
            LET d == Abs(FloatDegrees(other.lon) - FloatDegrees(self_.lon))
            IN  IF d > 180 THEN 360 - d ELSE d

Waypoint_duration_to(self_, other) ==
    IF self_.time = None \/ other.time = None THEN Ok(Timedelta(0))
    ELSE DateTimeSub(other.time, self_.time)

\* a speed that is zero when no time has passed
Waypoint_speed_to_ZeroWhenStill(self_, other) ==
    LET duration == Waypoint_duration_to(self_, other)
    IN  IF ~duration.ok THEN duration
        ELSE IF duration.val.timedelta = 0 THEN Ok(Ratio(0, 1))
        ELSE Ok(Ratio(Waypoint_distance_to(self_, other) * 1000000,
                      duration.val.timedelta))

\* distance / seconds, in degrees of arc per second; a float division by
\* zero raises ZeroDivisionError
Waypoint_speed_to(self_, other) ==
    LET duration == Waypoint_duration_to(self_, other)
    IN  IF ~duration.ok THEN duration
        ELSE IF duration.val.timedelta = 0 THEN Raise("ZeroDivisionError")
        ELSE Ok(Ratio(Waypoint_distance_to(self_, other) * 1000000,
                      duration.val.timedelta))

\* the gain taken from other to self
Waypoint_gain_to_Reversed(self_, other) ==
    IF self_.ele = None \/ other.ele = None THEN Ok(Dec(0))
    ELSE Ok(Dec(self_.ele.dec - other.ele.dec))

Waypoint_gain_to(self_, other) ==
    IF self_.ele = None \/ other.ele = None THEN Ok(Dec(0))
    ELSE Ok(Dec(other.ele.dec - self_.ele.dec))

(***************************************************************************)
(* The statistics of one segment (PointsStatisticsMixin)                   *)
(***************************************************************************)
HasEle(pt) == pt.ele # None

\* the points that have an elevation, in order
Points_with_ele(points) == SelectSeq(points, HasEle)

\* the elevations of the points that have one, in order
Points_eles(points) ==
    [i \in 1..Len(Points_with_ele(points)) |->
       Points_with_ele(points)[i].ele.dec]

\* max() and min() of a list of numbers: ValueError when it is empty
PyMax(ns) == IF ns = <<>> THEN Raise("ValueError") ELSE Ok(MaxOf(Range(ns)))

PyMin(ns) == IF ns = <<>> THEN Raise("ValueError") ELSE Ok(MinOf(Range(ns)))

Points_max_elevation(points) ==
    LET m == PyMax(Points_eles(points))
    IN  IF m.ok THEN Ok(Dec(m.val)) ELSE m

Points_min_elevation(points) ==
    LET m == PyMin(Points_eles(points))
    IN  IF m.ok THEN Ok(Dec(m.val)) ELSE m

\* the differences between consecutive elevations
Points_gains(points) ==
    LET eles == Points_eles(points)
    IN  [i \in 1..(Len(eles) - 1) |-> eles[i + 1] - eles[i]]

Positive(n) == n > 0

Negative(n) == n < 0

Points_total_ascent(points) ==
    Dec(SumSeq(SelectSeq(Points_gains(points), Positive)))

\* the descent, as a non-negative magnitude
Points_total_descent(points) ==
    Dec(Abs(SumSeq(SelectSeq(Points_gains(points), Negative))))

\* the speeds between consecutive points, the pairs between which no time
\* passes left out
Points_speeds(points) ==
    LET legs == SelectSeq([i \in 1..(Len(points) - 1) |->
                              <<points[i], points[i + 1]>>],
                          LAMBDA leg : Waypoint_speed_to(leg[1], leg[2]).ok)
    IN  [i \in 1..Len(legs) |-> Waypoint_speed_to(legs[i][1], legs[i][2]).val]

RatMax(rs) == CHOOSE r \in Range(rs) : \A o \in Range(rs) : ~RatLess(r, o)

RatMin(rs) == CHOOSE r \in Range(rs) : \A o \in Range(rs) : ~RatLess(o, r)

Points_max_speed(points) ==
    IF Points_speeds(points) = <<>> THEN Raise("ValueError")
    ELSE Ok(RatMax(Points_speeds(points)))

Points_min_speed(points) ==
    IF Points_speeds(points) = <<>> THEN Raise("ValueError")
    ELSE Ok(RatMin(Points_speeds(points)))

\* the pairs of consecutive points
Points_legs(points) ==
    [i \in 1..(Len(points) - 1) |-> <<points[i], points[i + 1]>>]

\* the sum of the distances between consecutive points
Points_total_distance(points) ==
    Ok(SumSeq([i \in 1..(Len(points) - 1) |->
                 Waypoint_distance_to(points[i], points[i + 1])]))

\* the sum of the durations of a sequence of legs
LegsDuration(legs) ==
    LET durations == Collect([i \in 1..Len(legs) |->
                                Waypoint_duration_to(legs[i][1], legs[i][2])])
    IN  IF ~durations.ok THEN durations
        ELSE Ok(Timedelta(SumSeq([i \in 1..Len(legs) |->
                                    durations.val[i].timedelta])))

\* the sum of the durations between consecutive points
Points_total_duration(points) == LegsDuration(Points_legs(points))

\* a leg whose speed is above 0.5 km/h: in whole degrees of arc (111 km
\* each) and durations below 2^31 microseconds, every leg that covers a
\* distance; a leg of no duration has no speed and is left out
Moving(leg) ==
    /\ Waypoint_speed_to(leg[1], leg[2]).ok
    /\ Waypoint_distance_to(leg[1], leg[2]) > 0

\* the sum of the durations of the legs passed at more than 0.5 km/h
Points_moving_duration(points) ==
    LegsDuration(SelectSeq(Points_legs(points), Moving))

(***************************************************************************)
(* Track statistics                                                        *)
(***************************************************************************)
\* stat(trkseg) for trkseg in trk.trksegs
OverSegments(trk, stat(_)) ==
    Collect([i \in 1..Len(trk.trksegs) |-> stat(trk.trksegs[i].trkpts)])

\* a maximum speed of zero for a track without segments
Track_max_speed_ZeroWhenEmpty(trk) ==
    LET speeds == OverSegments(trk, Points_max_speed)
    IN  IF ~speeds.ok THEN speeds
        ELSE IF speeds.val = <<>> THEN Ok(Ratio(0, 1))
        ELSE Ok(RatMax(speeds.val))

Track_max_speed(trk) ==
    LET speeds == OverSegments(trk, Points_max_speed)
    IN  IF ~speeds.ok THEN speeds
        ELSE IF speeds.val = <<>> THEN Raise("ValueError")
        ELSE Ok(RatMax(speeds.val))

Track_min_speed(trk) ==
    LET speeds == OverSegments(trk, Points_min_speed)
    IN  IF ~speeds.ok THEN speeds
        ELSE IF speeds.val = <<>> THEN Raise("ValueError")
        ELSE Ok(RatMin(speeds.val))

\* the elevations of all the points of all the segments that have one
Track_eles(trk) ==
    LET RECURSIVE Pool(_)
        Pool(i) == IF i > Len(trk.trksegs) THEN <<>>
                   ELSE Points_eles(trk.trksegs[i].trkpts) \o Pool(i + 1)
    IN  Pool(1)

\* the mean of the averages of the segments that have an elevation
Track_avg_elevation_PerSegment(trk) ==
    LET withEle == SelectSeq(trk.trksegs,
                             LAMBDA seg : Points_eles(seg.trkpts) # <<>>)
        num == SumSeq([i \in 1..Len(withEle) |->
                         SumSeq(Points_eles(withEle[i].trkpts))])
        den == SumSeq([i \in 1..Len(withEle) |->
                         Len(Points_eles(withEle[i].trkpts))])
        scaled == [i \in 1..Len(withEle) |->
                     Ratio(SumSeq(Points_eles(withEle[i].trkpts)),
                           Len(Points_eles(withEle[i].trkpts)))]
        RECURSIVE AddUp(_)
        AddUp(i) == IF i > Len(scaled) THEN Ratio(0, 1)
                    ELSE LET rest == AddUp(i + 1)
                         IN  Ratio(scaled[i].num * rest.den
                                       + rest.num * scaled[i].den,
                                   scaled[i].den * rest.den)
    IN  IF withEle = <<>> THEN Raise("InvalidOperation")
        ELSE Ok(Ratio(AddUp(1).num, AddUp(1).den * Len(withEle)))

\* sum(_eles, Decimal("0")) / len(_eles); Decimal("0") / 0 raises
\* decimal.InvalidOperation
Track_avg_elevation(trk) ==
    LET eles == Track_eles(trk)
    IN  IF eles = <<>> THEN Raise("InvalidOperation")
        ELSE Ok(Ratio(SumSeq(eles), Len(eles)))

Track_max_elevation(trk) ==
    LET eles == OverSegments(trk, Points_max_elevation)
    IN  IF ~eles.ok THEN eles
        ELSE IF eles.val = <<>> THEN Raise("ValueError")
        ELSE Ok(Dec(MaxOf({e.dec : e \in Range(eles.val)})))

Track_min_elevation(trk) ==
    LET eles == OverSegments(trk, Points_min_elevation)
    IN  IF ~eles.ok THEN eles
        ELSE IF eles.val = <<>> THEN Raise("ValueError")
        ELSE Ok(Dec(MinOf({e.dec : e \in Range(eles.val)})))

Track_diff_elevation(trk) ==
    LET max == Track_max_elevation(trk)
        min == Track_min_elevation(trk)
    IN  IF ~max.ok THEN max
        ELSE IF ~min.ok THEN min
        ELSE Ok(Dec(max.val.dec - min.val.dec))

Track_total_ascent(trk) ==
    Ok(Dec(SumSeq([i \in 1..Len(trk.trksegs) |->
                     Points_total_ascent(trk.trksegs[i].trkpts).dec])))

\* the descent without abs()
Track_total_descent_Signed(trk) ==
    Ok(Dec(-SumSeq([i \in 1..Len(trk.trksegs) |->
                      Points_total_descent(trk.trksegs[i].trkpts).dec])))

Track_total_descent(trk) ==
    Ok(Dec(Abs(SumSeq([i \in 1..Len(trk.trksegs) |->
                         Points_total_descent(trk.trksegs[i].trkpts).dec]))))

\* the total distance of the points of the track taken as one segment
Track_total_distance_Joined(trk) ==
    LET RECURSIVE Joined(_)
        Joined(i) == IF i > Len(trk.trksegs) THEN <<>>
                     ELSE trk.trksegs[i].trkpts \o Joined(i + 1)
    IN  Points_total_distance(Joined(1))

Track_total_distance(trk) ==
    LET distances == OverSegments(trk, Points_total_distance)
    IN  IF ~distances.ok THEN distances ELSE Ok(SumSeq(distances.val))

\* sum() of timedeltas, from timedelta()
SumTimedelta(durations) ==
    Timedelta(SumSeq([i \in 1..Len(durations) |-> durations[i].timedelta]))

Track_total_duration(trk) ==
    LET durations == OverSegments(trk, Points_total_duration)
    IN  IF ~durations.ok THEN durations ELSE Ok(SumTimedelta(durations.val))

Track_moving_duration(trk) ==
    LET durations == OverSegments(trk, Points_moving_duration)
    IN  IF ~durations.ok THEN durations ELSE Ok(SumTimedelta(durations.val))

RECURSIVE ProfileFrom(_, _, _, _)
\* the pairs appended by the loops of elevation_profile, from the point i of
\* the points with elevation of the segment s on, at the distance reached
ProfileFrom(trk, s, i, distance) ==
    IF s > Len(trk.trksegs) THEN <<>>
    ELSE LET points == Points_with_ele(trk.trksegs[s].trkpts)
         IN  IF i > Len(points) THEN ProfileFrom(trk, s + 1, 2, distance)
             ELSE LET d == distance
                           + Waypoint_distance_to(points[i - 1], points[i])
                  IN  <<<<d, points[i].ele>>>>
                      \o ProfileFrom(trk, s, i + 1, d)

\* trksegs[0] and _points_with_ele[0] raise IndexError on an empty list
Track_elevation_profile(trk) ==
    IF Len(trk.trksegs) = 0 THEN Raise("IndexError")
    ELSE IF Len(Points_with_ele(trk.trksegs[1].trkpts)) = 0
         THEN Raise("IndexError")
    ELSE Ok(<<<<0, Points_with_ele(trk.trksegs[1].trkpts)[1].ele>>>>
            \o ProfileFrom(trk, 1, 2, 0))

(***************************************************************************)
(* The callers of the statistics                                           *)
(***************************************************************************)
\* points on the meridian of Greenwich
StatA == [Waypoint_init EXCEPT !.lon = Dec(0), !.lat = Dec(0),
                              !.ele = Dec(10), !.time = DateTime(0, 0)]

StatB == [Waypoint_init EXCEPT !.lon = Dec(0), !.lat = Dec(1),
                              !.ele = Dec(12), !.time = DateTime(60, 0)]

StatC == [Waypoint_init EXCEPT !.lon = Dec(0), !.lat = Dec(3),
                              !.ele = Dec(9), !.time = DateTime(60, 0)]

\* a point without elevation and without timestamp
StatD == [Waypoint_init EXCEPT !.lon = Dec(0), !.lat = Dec(1)]

\* a point whose timestamp has no timezone
StatE == [Waypoint_init EXCEPT !.lon = Dec(0), !.lat = Dec(0),
                              !.ele = Dec(10), !.time = NaiveDateTime(0, 0)]

\* a point 10^-20 degrees north of StatB and StatD
StatF == [Waypoint_init EXCEPT !.lon = Dec(0), !.lat = TinyDec(1, 1)]

\* a point at the place of StatA, a minute later
StatG == [Waypoint_init EXCEPT !.lon = Dec(0), !.lat = Dec(0),
                              !.time = DateTime(60, 0)]

TrackStatPoints == {StatA, StatB, StatC, StatD, StatG}

StatPoints == TrackStatPoints \cup {StatE, StatF}

StatNames ==
    {"max_speed", "min_speed", "avg_elevation", "max_elevation",
     "min_elevation", "diff_elevation", "total_ascent", "total_descent"}

Track_stat(name, trk) ==
    CASE name = "max_speed" -> Track_max_speed(trk)
      [] name = "min_speed" -> Track_min_speed(trk)
      [] name = "avg_elevation" -> Track_avg_elevation(trk)
      [] name = "max_elevation" -> Track_max_elevation(trk)
      [] name = "min_elevation" -> Track_min_elevation(trk)
      [] name = "diff_elevation" -> Track_diff_elevation(trk)
      [] name = "total_ascent" -> Track_total_ascent(trk)
      [] name = "total_descent" -> Track_total_descent(trk)

InitStats ==
    /\ self \in StatPoints \cup {Track_init}
    /\ ret = NoRet
    /\ written = EmptyDict

\* p.distance_to(q)
DistanceTo(q) ==
    /\ self.cls = "Waypoint"
    /\ ret' = [op |-> "distance_to", arg |-> q,
               out |-> Ok(Waypoint_distance_to(self, q))]
    /\ UNCHANGED <<self, written>>

\* p.duration_to(q)
DurationTo(q) ==
    /\ self.cls = "Waypoint"
    /\ ret' = [op |-> "duration_to", arg |-> q,
               out |-> Waypoint_duration_to(self, q)]
    /\ UNCHANGED <<self, written>>

\* p.speed_to(q)
SpeedTo(q) ==
    /\ self.cls = "Waypoint"
    /\ ret' = [op |-> "speed_to", arg |-> q,
               out |-> Waypoint_speed_to(self, q)]
    /\ UNCHANGED <<self, written>>

\* p.gain_to(q)
GainTo(q) ==
    /\ self.cls = "Waypoint"
    /\ ret' = [op |-> "gain_to", arg |-> q,
               out |-> Waypoint_gain_to(self, q)]
    /\ UNCHANGED <<self, written>>

AggregateNames == {"total_distance", "total_duration", "moving_duration"}

Track_aggregate(name, trk) ==
    CASE name = "total_distance" -> Track_total_distance(trk)
      [] name = "total_duration" -> Track_total_duration(trk)
      [] name = "moving_duration" -> Track_moving_duration(trk)

\* trk.total_distance, trk.total_duration, trk.moving_duration
TrackAggregate(name) ==
    /\ self.cls = "Track"
    /\ ret' = [op |-> name, out |-> Track_aggregate(name, self)]
    /\ UNCHANGED <<self, written>>

\* trk.elevation_profile
ElevationProfile ==
    /\ self.cls = "Track"
    /\ ret' = [op |-> "elevation_profile",
               out |-> Track_elevation_profile(self)]
    /\ UNCHANGED <<self, written>>

\* trk.<name>, a statistic property of a Track
TrackStat(name) ==
    /\ self.cls = "Track"
    /\ ret' = [op |-> name, out |-> Track_stat(name, self)]
    /\ UNCHANGED <<self, written>>

NextStats ==
    \/ AppendSegment
    \/ \E i \in 1..MaxSegs : \E pt \in TrackStatPoints :
         AppendTrackPoint(i, pt)
    \/ \E q \in StatPoints : DistanceTo(q)
    \/ \E q \in StatPoints : DurationTo(q)
    \/ \E q \in StatPoints : SpeedTo(q)
    \/ \E q \in StatPoints : GainTo(q)
    \/ \E name \in StatNames : TrackStat(name)
    \/ \E name \in AggregateNames : TrackAggregate(name)
    \/ ElevationProfile

SpecStats == InitStats /\ [][NextStats]_vars

(***************************************************************************)
(* What the claims on the statistics speak of                              *)
(***************************************************************************)
\* q.time - p.time in microseconds, zero when either timestamp is absent
ExpectedMicroseconds(p, q) ==
    IF p.time = None \/ q.time = None THEN 0
    ELSE (q.time.sec - p.time.sec) * 1000000 + (q.time.usec - p.time.usec)

\* C13: p.duration_to(q) returns q.time - p.time when both timestamps are
\* present and a zero duration when either is absent; it never raises.
C13_DurationNeverRaises ==
    ret.op = "duration_to"
        => ret.out = Ok(Timedelta(ExpectedMicroseconds(self, ret.arg)))

\* C14: p.speed_to(q) is the distance from p to q divided by the seconds
\* from p to q (for timestamps between which duration_to is defined); when
\* that duration is zero, either timestamp absent or both equal, the call
\* raises ZeroDivisionError and returns no speed.
C14_SpeedDividesByDuration ==
    (/\ ret.op = "speed_to"
     /\ Waypoint_duration_to(self, ret.arg).ok) =>
        IF ExpectedMicroseconds(self, ret.arg) = 0
        THEN ret.out = Raise("ZeroDivisionError")
        ELSE /\ ret.out.ok
             /\ ret.out.val.num * ExpectedMicroseconds(self, ret.arg)
                  = Waypoint_distance_to(self, ret.arg) * 1000000
                      * ret.out.val.den

\* C14 witness: two points apart with equal timestamps, and the error
C14_Witness ==
    /\ ret.op = "speed_to"
    /\ self.time # None
    /\ self.time = ret.arg.time
    /\ self.lat # ret.arg.lat
    /\ ~ret.out.ok

\* C15: p.gain_to(q) is q.ele - p.ele when both elevations are present and
\* zero when either is absent; so gain_to(p, q) = -gain_to(q, p) and
\* gain_to(p, p) = 0.
C15_GainAntisymmetric ==
    ret.op = "gain_to" =>
        /\ ret.out = Ok(Dec(IF self.ele # None /\ ret.arg.ele # None
                            THEN ret.arg.ele.dec - self.ele.dec ELSE 0))
        /\ Waypoint_gain_to(ret.arg, self) = Ok(Dec(-ret.out.val.dec))
        /\ Waypoint_gain_to(self, self) = Ok(Dec(0))
        /\ Waypoint_gain_to(ret.arg, ret.arg) = Ok(Dec(0))

\* C15 witness: a descent of three metres
C15_Witness ==
    /\ ret.op = "gain_to"
    /\ self.ele = Dec(12)
    /\ ret.arg.ele = Dec(9)
    /\ ret.out = Ok(Dec(-3))

\* the points of a track, segment after segment
TrackPointSeq(trk) ==
    LET RECURSIVE Flat(_)
        Flat(i) == IF i > Len(trk.trksegs) THEN <<>>
                   ELSE trk.trksegs[i].trkpts \o Flat(i + 1)
    IN  Flat(1)

EleSum(pts) ==
    SumSeq([i \in 1..Len(pts) |->
              IF pts[i].ele # None THEN pts[i].ele.dec ELSE 0])

EleCount(pts) ==
    SumSeq([i \in 1..Len(pts) |-> IF pts[i].ele # None THEN 1 ELSE 0])

\* C16: Track.avg_elevation is the sum of the elevations of the points of
\* all segments that have an elevation, divided by the number of those
\* points; points without elevation are not counted.
C16_AvgElevationPooled ==
    (/\ ret.op = "avg_elevation"
     /\ EleCount(TrackPointSeq(self)) > 0) =>
        /\ ret.out.ok
        /\ ret.out.val.num * EleCount(TrackPointSeq(self))
             = EleSum(TrackPointSeq(self)) * ret.out.val.den

\* C16 witness: three elevations over two segments, whose pooled average is
\* not the mean of the averages of the two segments
C16_Witness ==
    /\ ret.op = "avg_elevation"
    /\ Len(self.trksegs) = 2
    /\ EleCount(TrackPointSeq(self)) = 3
    /\ ret.out.ok
    /\ ret.out # Track_avg_elevation_PerSegment(self)

\* the elevations of a segment are 10, 12, 9
ExampleSegment(trk) ==
    /\ Len(trk.trksegs) = 1
    /\ Len(trk.trksegs[1].trkpts) = 3
    /\ \A i \in 1..3 : trk.trksegs[1].trkpts[i].ele # None
    /\ [i \in 1..3 |-> trk.trksegs[1].trkpts[i].ele.dec] = <<10, 12, 9>>

\* C17: Track.total_ascent is the sum of the total ascents of its segments;
\* total_descent is non-negative and the sum of the descents of its
\* segments; diff_elevation is max_elevation minus min_elevation.  A single
\* segment with the elevations 10, 12, 9 gives ascent 2, descent 3 and
\* diff_elevation 3.
C17_AscentDescent ==
    LET segs == self.trksegs
        ascents == [i \in 1..Len(segs) |->
                      Points_total_ascent(segs[i].trkpts).dec]
        descents == [i \in 1..Len(segs) |->
                       Points_total_descent(segs[i].trkpts).dec]
    IN  /\ ret.op = "total_ascent" =>
              /\ ret.out = Ok(Dec(SumSeq(ascents)))
              /\ ExampleSegment(self) => ret.out = Ok(Dec(2))
        /\ ret.op = "total_descent" =>
              /\ ret.out = Ok(Dec(SumSeq(descents)))
              /\ ret.out.val.dec >= 0
              /\ ExampleSegment(self) => ret.out = Ok(Dec(3))
        /\ ret.op = "diff_elevation" =>
              /\ IF Track_max_elevation(self).ok
                    /\ Track_min_elevation(self).ok
                 THEN ret.out = Ok(Dec(Track_max_elevation(self).val.dec
                                       - Track_min_elevation(self).val.dec))
                 ELSE ~ret.out.ok
              /\ ExampleSegment(self) => ret.out = Ok(Dec(3))

\* C17 witness: the descent of the segment with the elevations 10, 12, 9
C17_Witness ==
    /\ ret.op = "total_descent"
    /\ ExampleSegment(self)
    /\ ret.out = Ok(Dec(3))

\* C18: for a Track without points, min_speed and max_speed, and for a
\* Track without a point that has an elevation, min_elevation,
\* max_elevation and avg_elevation, raise an error and return no zero; the
\* failed call leaves the track as it was.
C18_EmptyStatisticsRaise ==
    /\ [](/\ (/\ ret.op \in {"min_speed", "max_speed"}
               /\ TrackPointSeq(self) = <<>>) => ~ret.out.ok
          /\ (/\ ret.op \in {"min_elevation", "max_elevation",
                              "avg_elevation"}
               /\ EleCount(TrackPointSeq(self)) = 0) => ~ret.out.ok)
    /\ [][(ret'.op \in StatNames /\ ~ret'.out.ok) => self' = self]_vars

\* C18 witness: max_speed of a track without segments raised
C18_Witness ==
    /\ ret.op = "max_speed"
    /\ self.cls = "Track"
    /\ self.trksegs = <<>>
    /\ ret.out = Raise("ValueError")

(***************************************************************************)
(* The element tree of the markup: tag, attributes, text and children.    *)
(* Namespace maps are left out: every built element carries the same one. *)
(***************************************************************************)
Elem(tag, attrib, text, children) ==
    [tag |-> tag, attrib |-> attrib, text |-> text, children |-> children]

\* etree.SubElement(parent, tag) with its text set
TextElem(tag, text) == Elem(tag, EmptyDict, text, <<>>)

\* element.iterfind(tag): the children of that tag, in document order
iterfind(element, tag) ==
    SelectSeq(element.children, LAMBDA child : child.tag = tag)

\* element.find(tag): the first child of that tag, or None
find(element, tag) ==
    LET found == iterfind(element, tag)
    IN  IF Len(found) = 0 THEN None ELSE found[1]

\* element.get(key): the attribute, or None
get(element, key) ==
    IF key \in DOMAIN element.attrib THEN element.attrib[key] ELSE None

RECURSIVE Flatten(_)
Flatten(ss) == IF Len(ss) = 0 THEN <<>> ELSE Head(ss) \o Flatten(Tail(ss))

IndexOf(order, f) == CHOOSE i \in 1..Len(order) : order[i] = f

\* the text a build gives the child of a field
FieldText(f, value) ==
    IF f = "time" THEN format_datetime(value)
    ELSE IF f \in {"name", "cmt", "desc", "src", "sym", "type", "fix",
                   "keywords", "email"}
    THEN value
    ELSE PyStr(value)

(***************************************************************************)
(* Link, Person, Copyright, Bounds and Metadata in the markup              *)
(***************************************************************************)
Link_build(link) ==
    Elem("link", [href |-> link.href], None,
         (IF link.text # None THEN <<TextElem("text", link.text)>> ELSE <<>>)
         \o (IF link.type # None THEN <<TextElem("type", link.type)>>
             ELSE <<>>))

Link_parse(element) ==
    IF get(element, "href") = None THEN Raise("ParseError")
    ELSE Ok([cls |-> "Link",
             href |-> get(element, "href"),
             text |-> IF find(element, "text") # None
                      THEN find(element, "text").text ELSE None,
             type |-> IF find(element, "type") # None
                      THEN find(element, "type").text ELSE None])

Person_build(person) ==
    Elem("author", EmptyDict, None,
         (IF person.name # None THEN <<TextElem("name", person.name)>>
          ELSE <<>>)
         \o (IF person.email # None THEN <<TextElem("email", person.email)>>
             ELSE <<>>)
         \o (IF person.link # None THEN <<Link_build(person.link)>>
             ELSE <<>>))

Person_parse(element) ==
    LET link == IF find(element, "link") # None
                THEN Link_parse(find(element, "link")) ELSE Ok(None)
    IN  IF ~link.ok THEN link
        ELSE Ok([cls |-> "Person",
                 name |-> IF find(element, "name") # None
                          THEN find(element, "name").text ELSE None,
                 email |-> IF find(element, "email") # None
                           THEN find(element, "email").text ELSE None,
                 link |-> link.val])

Copyright_build(copyright) ==
    Elem("copyright", [author |-> copyright.author], None,
         (IF copyright.year # None
          THEN <<TextElem("year", PyStr(copyright.year))>> ELSE <<>>)
         \o (IF copyright.license # None
             THEN <<TextElem("license", copyright.license)>> ELSE <<>>))

Copyright_parse(element) ==
    LET year == IF find(element, "year") # None
                THEN int(find(element, "year").text) ELSE Ok(None)
    IN  IF get(element, "author") = None THEN Raise("ParseError")
        ELSE IF ~year.ok THEN year
        ELSE Ok([cls |-> "Copyright",
                 author |-> get(element, "author"),
                 year |-> year.val,
                 license |-> IF find(element, "license") # None
                             THEN find(element, "license").text ELSE None])

Bounds_build(bounds) ==
    Elem("bounds",
         [minlat |-> PyStr(bounds.minlat), minlon |-> PyStr(bounds.minlon),
          maxlat |-> PyStr(bounds.maxlat), maxlon |-> PyStr(bounds.maxlon)],
         None, <<>>)

Bounds_parse(element) ==
    LET outs == <<Latitude(get(element, "minlat")),
                  Longitude(get(element, "minlon")),
                  Latitude(get(element, "maxlat")),
                  Longitude(get(element, "maxlon"))>>
        all == Collect(outs)
    IN  IF ~all.ok THEN all
        ELSE Ok([cls |-> "Bounds", minlat |-> all.val[1],
                 minlon |-> all.val[2], maxlat |-> all.val[3],
                 maxlon |-> all.val[4]])

MetadataOrder ==
    <<"name", "desc", "author", "copyright", "links", "time", "keywords",
      "bounds">>

\* the children a Metadata build emits for one field
Metadata_child(metadata, f) ==
    CASE f = "links" -> MapSeq(Link_build, metadata.links.list)
      [] metadata[f] = None -> <<>>
      [] f = "author" -> <<Person_build(metadata.author)>>
      [] f = "copyright" -> <<Copyright_build(metadata.copyright)>>
      [] f = "bounds" -> <<Bounds_build(metadata.bounds)>>
      [] OTHER -> <<TextElem(f, FieldText(f, metadata[f]))>>

Metadata_build(metadata) ==
    Elem("metadata", EmptyDict, None,
         Flatten([i \in 1..Len(MetadataOrder) |->
                    Metadata_child(metadata, MetadataOrder[i])]))

\* what a Metadata parse reads for one field
Metadata_read(element, f) ==
    CASE f = "links" ->
            LET links == Collect(MapSeq(Link_parse, iterfind(element, "link")))
            IN  IF links.ok THEN Ok(PyList(links.val)) ELSE links
      [] find(element, f) = None -> Ok(None)
      [] f = "author" -> Person_parse(find(element, f))
      [] f = "copyright" -> Copyright_parse(find(element, f))
      [] f = "bounds" -> Bounds_parse(find(element, f))
      [] f = "time" -> isoparse(find(element, f).text)
      [] OTHER -> Ok(find(element, f).text)

Metadata_parse(element) ==
    LET all == Collect([i \in 1..Len(MetadataOrder) |->
                          Metadata_read(element, MetadataOrder[i])])
    IN  IF ~all.ok THEN all
        ELSE Ok([f \in DOMAIN Metadata_init |->
                   IF f = "cls" THEN "Metadata"
                   ELSE all.val[IndexOf(MetadataOrder, f)]])

(***************************************************************************)
(* Waypoint._build and Waypoint._parse                                     *)
(***************************************************************************)
\* the optional fields in the order _build emits and _parse reads them
WptXmlOrder ==
    <<"ele", "time", "magvar", "geoidheight", "name", "cmt", "desc", "src",
      "links", "sym", "type", "fix", "sat", "hdop", "vdop", "pdop",
      "ageofdgpsdata", "dgpsid">>

RteXmlOrder == <<"name", "cmt", "desc", "src", "links", "number", "type">>

\* a child for every field of the order, an empty one for a field not set
FieldChildren_EmitUnset(obj, order) ==
    Flatten([i \in 1..Len(order) |->
               IF order[i] = "links" THEN MapSeq(Link_build, obj.links)
               ELSE IF obj[order[i]] = None
                    THEN <<TextElem(order[i], None)>>
               ELSE <<TextElem(order[i],
                               FieldText(order[i], obj[order[i]]))>>])

\* the children _build emits for the optional fields: one per field that is
\* not None, one per link, in the order of the code
FieldChildren(obj, order) ==
    Flatten([i \in 1..Len(order) |->
               IF order[i] = "links" THEN MapSeq(Link_build, obj.links)
               ELSE IF obj[order[i]] = None THEN <<>>
               ELSE <<TextElem(order[i],
                               FieldText(order[i], obj[order[i]]))>>])

Waypoint_build(w, tag) ==
    IF ~HasPosition(w) THEN Raise("AttributeError")
    ELSE Ok(Elem(tag, [lat |-> PyStr(w.lat), lon |-> PyStr(w.lon)], None,
                 FieldChildren(w, WptXmlOrder)))

\* the conversion _parse applies to the text of a child
XmlConvert(f, text) ==
    CASE f \in {"ele", "geoidheight", "hdop", "vdop", "pdop",
                "ageofdgpsdata"} -> Decimal(text)
      [] f = "time" -> isoparse(text)
      [] f = "magvar" -> Degrees(text)
      [] f = "fix" -> Fix(text)
      [] f \in {"sat", "number"} -> int(text)
      [] f = "dgpsid" -> DGPSStation(text)
      [] OTHER -> Ok(text)

\* what _parse reads for the optional fields, in the order of the code;
\* a field without child keeps the None of the constructor
FieldsRead(element, order) ==
    Collect([i \in 1..Len(order) |->
               IF order[i] = "links"
               THEN Collect(MapSeq(Link_parse, iterfind(element, "link")))
               ELSE IF find(element, order[i]) = None THEN Ok(None)
               ELSE XmlConvert(order[i], find(element, order[i]).text)])

Waypoint_parse(element) ==
    LET lat == Latitude(get(element, "lat"))
        lon == Longitude(get(element, "lon"))
        fields == FieldsRead(element, WptXmlOrder)
    IN  IF ~lat.ok THEN lat
        ELSE IF ~lon.ok THEN lon
        ELSE IF ~fields.ok THEN fields
        ELSE Ok([f \in DOMAIN Waypoint_init |->
                   CASE f = "cls" -> "Waypoint"
                     [] f = "lat" -> lat.val
                     [] f = "lon" -> lon.val
                     [] OTHER -> fields.val[IndexOf(WptXmlOrder, f)]])

(***************************************************************************)
(* Route._build and Route._parse                                           *)
(***************************************************************************)
Route_build(rte, tag) ==
    LET rtepts == Collect([i \in 1..Len(rte.rtepts) |->
                             Waypoint_build(rte.rtepts[i], "rtept")])
    IN  IF ~rtepts.ok THEN rtepts
        ELSE Ok(Elem(tag, EmptyDict, None,
                     FieldChildren(rte, RteXmlOrder) \o rtepts.val))

Route_parse(element) ==
    LET fields == FieldsRead(element, RteXmlOrder)
        rtepts == Collect(MapSeq(Waypoint_parse, iterfind(element, "rtept")))
    IN  IF ~fields.ok THEN fields
        ELSE IF ~rtepts.ok THEN rtepts
        ELSE Ok([f \in DOMAIN Route_init |->
                   CASE f = "cls" -> "Route"
                     [] f = "rtepts" -> rtepts.val
                     [] OTHER -> fields.val[IndexOf(RteXmlOrder, f)]])

(***************************************************************************)
(* TrackSegment._build and TrackSegment._parse                             *)
(***************************************************************************)
TrackSegment_build(trkseg, tag) ==
    LET trkpts == Collect([i \in 1..Len(trkseg.trkpts) |->
                             Waypoint_build(trkseg.trkpts[i], "trkpt")])
    IN  IF ~trkpts.ok THEN trkpts
        ELSE Ok(Elem(tag, EmptyDict, None, trkpts.val))

TrackSegment_parse(element) ==
    LET trkpts == Collect(MapSeq(Waypoint_parse, iterfind(element, "trkpt")))
    IN  IF ~trkpts.ok THEN trkpts
        ELSE Ok([cls |-> "TrackSegment", trkpts |-> trkpts.val])

(***************************************************************************)
(* Track._build and Track._parse                                           *)
(***************************************************************************)
Track_build(trk, tag) ==
    LET trksegs == Collect([i \in 1..Len(trk.trksegs) |->
                              TrackSegment_build(trk.trksegs[i], "trkseg")])
    IN  IF ~trksegs.ok THEN trksegs
        ELSE Ok(Elem(tag, EmptyDict, None,
                     FieldChildren(trk, RteXmlOrder) \o trksegs.val))

Track_parse(element) ==
    LET fields == FieldsRead(element, RteXmlOrder)
        trksegs == Collect(MapSeq(TrackSegment_parse,
                                  iterfind(element, "trkseg")))
    IN  IF ~fields.ok THEN fields
        ELSE IF ~trksegs.ok THEN trksegs
        ELSE Ok([f \in DOMAIN Track_init |->
                   CASE f = "cls" -> "Track"
                     [] f = "trksegs" -> trksegs.val
                     [] OTHER -> fields.val[IndexOf(RteXmlOrder, f)]])

(***************************************************************************)
(* GPX._build and GPX._parse                                               *)
(***************************************************************************)
\* "if self.metadata:" is taken as true of every Metadata object
GPX_build(gpx, tag) ==
    LET wpts == Collect([i \in 1..Len(gpx.wpts) |->
                           Waypoint_build(gpx.wpts[i], "wpt")])
        rtes == Collect([i \in 1..Len(gpx.rtes) |->
                           Route_build(gpx.rtes[i], "rte")])
        trks == Collect([i \in 1..Len(gpx.trks) |->
                           Track_build(gpx.trks[i], "trk")])
    IN  IF ~wpts.ok THEN wpts
        ELSE IF ~rtes.ok THEN rtes
        ELSE IF ~trks.ok THEN trks
        ELSE Ok(Elem(tag,
                     [version |-> Str("1.1"), creator |-> gpx.creator], None,
                     (IF gpx.metadata # None
                      THEN <<Metadata_build(gpx.metadata)>> ELSE <<>>)
                     \o wpts.val \o rtes.val \o trks.val))

\* a parse that keeps the creator of the constructor
GPX_parse_DefaultCreator(element) ==
    LET metadata == IF find(element, "metadata") # None
                    THEN Metadata_parse(find(element, "metadata"))
                    ELSE Ok(None)
        wpts == Collect(MapSeq(Waypoint_parse, iterfind(element, "wpt")))
        rtes == Collect(MapSeq(Route_parse, iterfind(element, "rte")))
        trks == Collect(MapSeq(Track_parse, iterfind(element, "trk")))
    IN  IF ~metadata.ok THEN metadata
        ELSE IF ~wpts.ok THEN wpts
        ELSE IF ~rtes.ok THEN rtes
        ELSE IF ~trks.ok THEN trks
        ELSE Ok([cls |-> "GPX",
                 creator |-> GPX_init.creator,
                 metadata |-> metadata.val,
                 wpts |-> wpts.val, rtes |-> rtes.val, trks |-> trks.val])

GPX_parse(element) ==
    LET metadata == IF find(element, "metadata") # None
                    THEN Metadata_parse(find(element, "metadata"))
                    ELSE Ok(None)
        wpts == Collect(MapSeq(Waypoint_parse, iterfind(element, "wpt")))
        rtes == Collect(MapSeq(Route_parse, iterfind(element, "rte")))
        trks == Collect(MapSeq(Track_parse, iterfind(element, "trk")))
    IN  IF ~metadata.ok THEN metadata
        ELSE IF ~wpts.ok THEN wpts
        ELSE IF ~rtes.ok THEN rtes
        ELSE IF ~trks.ok THEN trks
        ELSE Ok([cls |-> "GPX",
                 creator |-> IF get(element, "creator") # None
                             THEN get(element, "creator")
                             ELSE GPX_init.creator,
                 metadata |-> metadata.val,
                 wpts |-> wpts.val, rtes |-> rtes.val, trks |-> trks.val])

\* obj._build() and cls(element), by class
build(obj) ==
    CASE obj.cls = "Waypoint" -> Waypoint_build(obj, "wpt")
      [] obj.cls = "Route" -> Route_build(obj, "rte")
      [] obj.cls = "TrackSegment" -> TrackSegment_build(obj, "trkseg")
      [] obj.cls = "Track" -> Track_build(obj, "trk")
      [] obj.cls = "GPX" -> GPX_build(obj, "gpx")

parse(cls, element) ==
    CASE cls = "Waypoint" -> Waypoint_parse(element)
      [] cls = "Route" -> Route_parse(element)
      [] cls = "TrackSegment" -> TrackSegment_parse(element)
      [] cls = "Track" -> Track_parse(element)
      [] cls = "GPX" -> GPX_parse(element)

(***************************************************************************)
(* The callers of build and parse                                          *)
(***************************************************************************)
\* a point with a time of whole milliseconds
PtMs == [Waypoint_init EXCEPT !.lon = Dec(10), !.lat = Dec(0),
                              !.ele = Dec(7),
                              !.time = DateTime(60, 250000),
                              !.sat = PyInt(4)]

\* a point with a time of 1500 microseconds past the second
PtUs == [Waypoint_init EXCEPT !.lon = Dec(0), !.lat = Dec(2),
                              !.time = DateTime(60, 1500)]

XmlPoints == {PtD, PtMs, PtUs}

XmlCreators == {Str("PyGPX"), Str("app")}

XmlMetadata ==
    {Metadata_init,
     [Metadata_init EXCEPT !.name = Str("a"),
                           !.time = DateTime(60, 250000),
                           !.links = PyList(<<CHOOSE l \in Links :
                                                l.text # None>>)],
     [Metadata_init EXCEPT
         !.desc = Str("d"), !.keywords = Str("k"),
         !.author = [cls |-> "Person", name |-> Str("p"), email |-> None,
                     link |-> CHOOSE l \in Links : l.text = None],
         !.copyright = [cls |-> "Copyright", author |-> Str("p"),
                        year |-> PyInt(2020), license |-> None],
         !.bounds = [cls |-> "Bounds", minlat |-> Dec(0),
                     minlon |-> Dec(-10), maxlat |-> Dec(5),
                     maxlon |-> Dec(10)]]}

InitXml ==
    /\ self \in {ClassInit(cls) : cls \in Classes}
    /\ ret = NoRet
    /\ written = EmptyDict

\* gpx.creator = creator
SetCreator(creator) ==
    /\ self.cls = "GPX"
    /\ self.creator # creator
    /\ self' = [self EXCEPT !.creator = creator]
    /\ ret' = NoRet
    /\ UNCHANGED written

\* gpx.metadata = metadata
SetMetadata(metadata) ==
    /\ self.cls = "GPX"
    /\ self.metadata # metadata
    /\ self' = [self EXCEPT !.metadata = metadata]
    /\ ret' = NoRet
    /\ UNCHANGED written

\* obj._build()
Build ==
    /\ ret' = [op |-> "build", out |-> build(self)]
    /\ UNCHANGED <<self, written>>

\* type(obj)(obj._build())
XmlRoundTrip ==
    /\ ret' = [op |-> "xml_round_trip",
               out |-> LET element == build(self)
                       IN  IF ~element.ok THEN element
                           ELSE parse(self.cls, element.val)]
    /\ UNCHANGED <<self, written>>

NextXml ==
    \/ \E pos \in Positions : SetPosition(pos[1], pos[2])
    \/ \E f \in OptionalFields("Waypoint") \cup OptionalFields("Route") :
         \E v \in FieldValues(f) \cup {None} : SetAttr(f, v)
    \/ \E link \in Links : AppendLink(link)
    \/ \E pt \in XmlPoints : AppendPoint(pt)
    \/ AppendSegment
    \/ \E i \in 1..MaxSegs, pt \in XmlPoints : AppendTrackPoint(i, pt)
    \/ \E creator \in XmlCreators : SetCreator(creator)
    \/ \E metadata \in XmlMetadata \cup {None} : SetMetadata(metadata)
    \/ \E pt \in XmlPoints : GpxAppendWaypoint(pt)
    \/ GpxAppendRoute
    \/ \E r \in 1..MaxRtes, pt \in XmlPoints : GpxAppendRoutePoint(r, pt)
    \/ GpxAppendTrack
    \/ \E t \in 1..MaxTrks : GpxAppendSegment(t)
    \/ \E t \in 1..MaxTrks, i \in 1..MaxSegs, pt \in XmlPoints :
         GpxAppendTrackPoint(t, i, pt)
    \/ Build
    \/ XmlRoundTrip

SpecXml == InitXml /\ [][NextXml]_vars

(***************************************************************************)
(* C19                                                                     *)
(***************************************************************************)
\* every point a document holds, in document order
XmlDocumentPoints(gpx) ==
    gpx.wpts
    \o Flatten([r \in 1..Len(gpx.rtes) |-> gpx.rtes[r].rtepts])
    \o Flatten([t \in 1..Len(gpx.trks) |->
                  Flatten([i \in 1..Len(gpx.trks[t].trksegs) |->
                             gpx.trks[t].trksegs[i].trkpts])])

\* every timestamp a document holds
DocumentTimes(gpx) ==
    {p.time : p \in {q \in Range(XmlDocumentPoints(gpx)) : q.time # None}}
    \cup (IF gpx.metadata # None /\ gpx.metadata.time # None
          THEN {gpx.metadata.time} ELSE {})

WholeMilliseconds(gpx) == \A t \in DocumentTimes(gpx) : t.usec % 1000 = 0

DocumentRoundTripped ==
    /\ ret.op = "xml_round_trip"
    /\ self.cls = "GPX"

StatedOrder(cls) ==
    IF cls = "Waypoint"
    THEN <<"ele", "time", "magvar", "geoidheight", "name", "cmt", "desc",
           "src", "link", "sym", "type", "fix", "sat", "hdop", "vdop",
           "pdop", "ageofdgpsdata", "dgpsid">>
    ELSE <<"name", "cmt", "desc", "src", "link", "number", "type",
           IF cls = "Route" THEN "rtept" ELSE "trkseg">>

\* how many children of a tag the entity is to have
StatedCount(obj, tag) ==
    CASE tag = "link" -> Len(obj.links)
      [] tag = "rtept" -> Len(obj.rtepts)
      [] tag = "trkseg" -> Len(obj.trksegs)
      [] OTHER -> IF obj[tag] # None THEN 1 ELSE 0

\* C20: the element built from a Waypoint, Route or Track has one child for
\* an optional field if and only if the field is set, one "link" child per
\* link, one child per point or segment and no other child, and the
\* children come in the stated order of their tags, whatever the order in
\* which the fields were assigned.
C20_ChildrenInOrder ==
    (Returned("build") /\ self.cls \in {"Waypoint", "Route", "Track"}) =>
        LET children == ret.out.val.children
            order == StatedOrder(self.cls)
        IN  /\ \A i \in 1..Len(children) : children[i].tag \in Range(order)
            /\ \A k \in 1..Len(order) :
                 Len(iterfind(ret.out.val, order[k]))
                    = StatedCount(self, order[k])
            /\ \A i, j \in 1..Len(children) :
                 i < j => IndexOf(order, children[i].tag)
                            <= IndexOf(order, children[j].tag)

C20_Witness ==
    /\ Returned("build")
    /\ self.cls = "Waypoint"
    /\ self.ele # None
    /\ self.sat # None
    /\ Len(self.links) = 1
    /\ Len(ret.out.val.children) = 3
    /\ ret.out.val.children[1].tag = "ele"
    /\ ret.out.val.children[2].tag = "link"
    /\ ret.out.val.children[3].tag = "sat"

(***************************************************************************)
(* The callers of format_datetime                                          *)
(***************************************************************************)
MaxSec == 3        \* seconds of the timestamps formatted

\* microseconds at, below and above a whole millisecond
FmtMicroseconds == {0, 1, 999, 1000, 1500, 250000, 999999}

\* timestamps in UTC and without timezone
FmtTimes ==
    {DateTime(s, us) : s \in 0..MaxSec, us \in FmtMicroseconds}
    \cup {NaiveDateTime(s, us) : s \in 0..MaxSec, us \in FmtMicroseconds}

InitFmt ==
    /\ self = Waypoint_init
    /\ ret = NoRet
    /\ written = EmptyDict

\* wpt.time = dt
SetTime(dt) ==
    /\ self.time # dt
    /\ self' = [self EXCEPT !.time = dt]
    /\ ret' = NoRet
    /\ UNCHANGED written

\* format_datetime(wpt.time)
FormatDatetime ==
    /\ self.time # None
    /\ ret' = [op |-> "format_datetime",
               out |-> Ok(format_datetime(self.time))]
    /\ UNCHANGED <<self, written>>

NextFmt ==
    \/ \E dt \in FmtTimes : SetTime(dt)
    \/ FormatDatetime

SpecFmt == InitFmt /\ [][NextFmt]_vars

(***************************************************************************)
(* C21                                                                     *)
(***************************************************************************)
\* C21: for every timestamp, the text format_datetime gives ends in the
\* suffix "Z", has a fractional part of exactly three digits when the
\* microseconds of the timestamp are not zero, and has no fractional part
\* when they are zero.
C21_FormatDatetime ==
    ret.op = "format_datetime" =>
        LET text == ret.out.val.iso
        IN  /\ text.suffix = "Z"
            /\ text.sec = self.time.sec
            /\ self.time.usec # 0 =>
                 /\ Len(text.frac) = 1
                 /\ text.frac[1] \in 0..999
            /\ self.time.usec = 0 => text.frac = <<>>

(***************************************************************************)
(* C22                                                                     *)
(***************************************************************************)
PositionInRange(w) ==
    /\ HasPosition(w)
    /\ w.lat.dec \in -90..90
    /\ w.lon.dec \in -180..180

\* C22: every Waypoint, constructed empty, built from coordinates or parsed,
\* has a latitude in [-90, 90] and a longitude in [-180, 180], in every
\* state reached by construction and assignment of fields.
C22_PositionPresent ==
    /\ self.cls = "Waypoint" => PositionInRange(self)
    /\ (self.cls = "Waypoint" /\ ret.op \in {"from_geojson", "round_trip"}
        /\ ret.out.ok) => PositionInRange(ret.out.val)

(***************************************************************************)
(* GeoJSON text: json.dump with CustomJSONEncoder, json.load with          *)
(* parse_float=Decimal                                                     *)
(***************************************************************************)
\* float.__repr__: the digits of the float, the text json.dump writes
FloatText(f) == [floattext |-> f.float]

\* CustomJSONEncoder.default, followed by the encoder's text for the value
\* it returns; an int is written by its digits, a str as it is
JSONEncoder_default(obj) ==
    IF "sec" \in DOMAIN obj THEN format_datetime(obj)
    ELSE IF IsDecimal(obj) THEN FloatText(float(obj))
    ELSE IF DOMAIN obj = {"int"} THEN NumText(obj.int)
    ELSE obj

\* json.dump of the Point geometry of a Waypoint
json_dump_point(point_geojson) ==
    [type |-> "Point",
     coordinates |-> MapSeq(JSONEncoder_default, point_geojson.coordinates)]

\* json.dump(wpt.to_geojson(type), cls=CustomJSONEncoder)
json_dump(geojson) ==
    IF geojson.type = "Point" THEN json_dump_point(geojson)
    ELSE [type |-> "Feature",
          geometry |-> json_dump_point(geojson.geometry),
          properties |-> IF geojson.properties = None THEN None
                         ELSE [k \in DOMAIN geojson.properties |->
                                 JSONEncoder_default(geojson.properties[k])]]

\* what json.load(parse_float=Decimal) reads from the text of a value
json_load_value(text) ==
    IF DOMAIN text = {"floattext"}
    THEN IF text.floattext.hi = 0 THEN Dec(text.floattext.lo)
         ELSE BigDec(text.floattext.hi, text.floattext.lo)
    ELSE IF DOMAIN text = {"numtext"} THEN PyInt(text.numtext)
    ELSE text

json_load_point(text) ==
    [type |-> "Point",
     coordinates |-> MapSeq(json_load_value, text.coordinates)]

\* json.load(fh, parse_float=Decimal)
json_load(text) ==
    IF text.type = "Point" THEN json_load_point(text)
    ELSE [type |-> "Feature",
          geometry |-> json_load_point(text.geometry),
          properties |-> IF text.properties = None THEN None
                         ELSE [k \in DOMAIN text.properties |->
                                 json_load_value(text.properties[k])]]

\* whole decimals at and around 2^53
JsonDecimals ==
    {Dec(7), BigDec(Pow53Hi, Pow53Lo), BigDec(Pow53Hi, Pow53Lo + 1),
     BigDec(Pow53Hi, Pow53Lo + 2), BigDec(Pow53Hi, Pow53Lo + 3)}

InitJson ==
    /\ self = Waypoint_init
    /\ ret = NoRet
    /\ written = EmptyDict

\* wpt.ele = value, wpt.hdop = value
SetDecimal(f, value) ==
    /\ self[f] # value
    /\ self' = [self EXCEPT ![f] = value]
    /\ ret' = NoRet
    /\ UNCHANGED written

\* wpt.to_geojson_file(geojson_file, type)
ToGeoJSONFile(type) ==
    /\ ret' = [op |-> "to_geojson_file", type |-> type,
               out |-> LET geojson == Waypoint_to_geojson(self, type)
                       IN  IF ~geojson.ok THEN geojson
                           ELSE Ok(json_dump(geojson.val))]
    /\ UNCHANGED <<self, written>>

NextJson ==
    \/ \E pos \in Positions : SetPosition(pos[1], pos[2])
    \/ \E f \in {"ele", "hdop"}, value \in JsonDecimals \cup {None} :
         SetDecimal(f, value)
    \/ \E dt \in {DateTime(60, 0), DateTime(60, 250000)} : SetTime(dt)
    \/ \E type \in {"Point", "Feature"} : ToGeoJSONFile(type)

SpecJson == InitJson /\ [][NextJson]_vars

(***************************************************************************)
(* C23                                                                     *)
(***************************************************************************)
\* C23: the GeoJSON text written for an entity, read back with decimal
\* parsing, has the coordinates and the decimal properties of the entity,
\* digit for digit.
C23_DecimalsPreserved ==
    Returned("to_geojson_file") =>
        LET read == json_load(ret.out.val)
            point == IF ret.type = "Point" THEN read ELSE read.geometry
        IN  /\ point.coordinates = ExpectedPosition(self)
            /\ (ret.type = "Feature" /\ self.hdop # None) =>
                  read.properties["hdop"] = self.hdop

(***************************************************************************)
(* C24                                                                     *)
(***************************************************************************)
SamePosition(p, q) == p.lat = q.lat /\ p.lon = q.lon

SumOver(trk, value(_, _)) ==
    SumSeq([i \in 1..Len(trk.trksegs) |->
              SumSeq([j \in 1..(Len(trk.trksegs[i].trkpts) - 1) |->
                        value(trk.trksegs[i].trkpts[j],
                              trk.trksegs[i].trkpts[j + 1])])])

LegMicroseconds(p, q) == ExpectedMicroseconds(p, q)

LegMovingMicroseconds(p, q) ==
    IF Waypoint_distance_to(p, q) > 0 THEN ExpectedMicroseconds(p, q) ELSE 0

MaxLists == 2      \* list objects allocated for one entity
MaxItems == 2      \* items held by one list

\* the attribute and its alias, by class
AliasPairs ==
    {[cls |-> "GPX", name |-> "wpts", alias |-> "waypoints"],
     [cls |-> "GPX", name |-> "rtes", alias |-> "routes"],
     [cls |-> "GPX", name |-> "trks", alias |-> "tracks"],
     [cls |-> "Route", name |-> "rtepts", alias |-> "points"],
     [cls |-> "Track", name |-> "trksegs", alias |-> "segments"],
     [cls |-> "TrackSegment", name |-> "trkpts", alias |-> "points"]}

\* the items a caller puts into the list of an attribute
AliasItems(name) ==
    CASE name = "rtes" -> {Route_init}
      [] name = "trks" -> {Track_init}
      [] name = "trksegs" -> {TrackSegment_init}
      [] OTHER -> {PtA, PtB}

\* __init__: self.<name> = []; self.<alias> = self.<name>. Both names are
\* bound to the list object 1 of the heap
AliasInit(pair) ==
    [cls |-> "Aliased", of |-> pair,
     heap |-> << <<>> >>,
     bound |-> [n \in {pair.name, pair.alias} |-> 1]]

InitAlias ==
    /\ self \in {AliasInit(pair) : pair \in AliasPairs}
    /\ ret = NoRet
    /\ written = EmptyDict

\* obj.<n>.append(item), through either name
AliasAppend(n, item) ==
    /\ n \in DOMAIN self.bound
    /\ item \in AliasItems(self.of.name)
    /\ Len(self.heap[self.bound[n]]) < MaxItems
    /\ self' = [self EXCEPT !.heap[self.bound[n]] = Append(@, item)]
    /\ ret' = NoRet
    /\ UNCHANGED written

\* obj.<n>.pop(), through either name
AliasPop(n) ==
    /\ n \in DOMAIN self.bound
    /\ Len(self.heap[self.bound[n]]) > 0
    /\ self' = [self EXCEPT !.heap[self.bound[n]] = SubSeq(@, 1, Len(@) - 1)]
    /\ ret' = NoRet
    /\ UNCHANGED written

\* obj.<n> = [item, ...]: the name is bound to a new list object
AliasAssign(n, items) ==
    /\ n \in DOMAIN self.bound
    /\ \A i \in 1..Len(items) : items[i] \in AliasItems(self.of.name)
    /\ Len(self.heap) < MaxLists
    /\ self' = [self EXCEPT !.heap = Append(@, items),
                            !.bound[n] = Len(self.heap) + 1]
    /\ ret' = NoRet
    /\ UNCHANGED written

\* obj.<n>, read through either name
AliasRead(n) ==
    /\ n \in DOMAIN self.bound
    /\ ret' = [op |-> "read", name |-> n,
               out |-> Ok(PyList(self.heap[self.bound[n]]))]
    /\ UNCHANGED <<self, written>>

AliasNames == {pair.name : pair \in AliasPairs}
                 \cup {pair.alias : pair \in AliasPairs}

\* the items appended, and the lists assigned
AliasAllItems == {Route_init, Track_init, TrackSegment_init, PtA, PtB}

AliasLists == {<<>>} \cup {<<item>> : item \in AliasAllItems}

NextAlias ==
    \/ \E n \in AliasNames : \E item \in AliasAllItems : AliasAppend(n, item)
    \/ \E n \in AliasNames : AliasPop(n)
    \/ \E n \in AliasNames : \E items \in AliasLists : AliasAssign(n, items)
    \/ \E n \in AliasNames : AliasRead(n)

SpecAlias == InitAlias /\ [][NextAlias]_vars

(***************************************************************************)
(* C26                                                                     *)
(***************************************************************************)
\* C26: in every state reached by appending to, removing from or assigning
\* to either name, the attribute and its alias hold the same sequence.
C26_AliasesSame ==
    self.cls = "Aliased" =>
        self.heap[self.bound[self.of.name]]
            = self.heap[self.bound[self.of.alias]]

(***************************************************************************)
(* C27                                                                     *)
(***************************************************************************)
\* the track points that have an elevation, in travel order
PointsWithEle(trk) == SelectSeq(TrackPointSeq(trk), HasEle)

\* C27: elevation_profile has one pair for every track point that has an
\* elevation, in travel order over all segments, and none for the others;
\* the first pair is at distance 0 and every next pair adds the distance
\* from the point with elevation just before it.
C27_ElevationProfile ==
    (self.cls = "Track" /\ ret.op = "elevation_profile") =>
        /\ ret.out.ok
        /\ LET profile == ret.out.val
               points == PointsWithEle(self)
           IN  /\ Len(profile) = Len(points)
               /\ \A i \in 1..Len(profile) :
                    /\ profile[i][2] = points[i].ele
                    /\ profile[i][1] =
                         IF i = 1 THEN 0
                         ELSE profile[i - 1][1]
                              + Waypoint_distance_to(points[i - 1], points[i])

\* the same for a track whose first segment has a point with elevation
C27_ProfileWhenReturned ==
    (self.cls = "Track" /\ ret.op = "elevation_profile" /\ ret.out.ok)
        => C27_ElevationProfile

(***************************************************************************)
(* C28                                                                     *)
(***************************************************************************)
\* from_geojson was given a Feature with "coordinatesProperties"
ZippedFeatureGiven ==
    /\ ret.op = "from_geojson"
    /\ IsLineEntity
    /\ IsDict(ret.arg)
    /\ "type" \in DOMAIN ret.arg
    /\ ret.arg["type"] = "Feature"
    /\ "coordinatesProperties" \in DOMAIN PropertiesOf(ret.arg)

GivenLines == AsLines(self.cls, ret.arg["geometry"]["coordinates"])

GivenMaps ==
    AsLines(self.cls, ret.arg["properties"]["coordinatesProperties"].list)

\* the lists of lines differ in length, or a line and its list of maps do
LengthsDiffer ==
    \/ Len(GivenLines) # Len(GivenMaps)
    \/ \E i \in 1..Smaller(Len(GivenLines), Len(GivenMaps)) :
         Len(GivenLines[i]) # Len(GivenMaps[i])

\* C28: from_geojson of a Feature whose "coordinatesProperties" differs in
\* length from the coordinates raises nothing; it rebuilds as many segments
\* as the shorter of the two lists of lines has, and in each as many points
\* as the shorter of the line and its list of maps, the first ones given.
C28_SurplusDropped ==
    (ZippedFeatureGiven /\ LengthsDiffer) =>
        /\ ret.out.ok
        /\ LET built == LinesOf(ret.out.val)
           IN  /\ Len(built) = Smaller(Len(GivenLines), Len(GivenMaps))
               /\ \A i \in 1..Len(built) :
                    /\ Len(built[i])
                         = Smaller(Len(GivenLines[i]), Len(GivenMaps[i]))
                    /\ \A j \in 1..Len(built[i]) :
                         /\ built[i][j].lon = GivenLines[i][j][1]
                         /\ built[i][j].lat = GivenLines[i][j][2]

\* two coordinate tuples and one property map give one point
C28_Witness ==
    /\ ZippedFeatureGiven
    /\ self.cls = "Route"
    /\ Len(GivenLines[1]) = 2
    /\ Len(GivenMaps[1]) = 1
    /\ ret.out.ok
    /\ Len(ret.out.val.rtepts) = 1

\* two lines and one list of maps give one segment
C28_TrackWitness ==
    /\ ZippedFeatureGiven
    /\ self.cls = "Track"
    /\ Len(GivenLines) = 2
    /\ Len(GivenMaps) = 1
    /\ ret.out.ok
    /\ Len(ret.out.val.trksegs) = 1

(***************************************************************************)
(* Track without points                                                    *)
(***************************************************************************)
HasEmptyTrack(gpx) ==
    \E i \in 1..Len(gpx.trks) : TrackPoints(gpx.trks[i]) = {}

\* C29: Track.to_geojson of a track without any point (no segment, or only
\* empty segments) raises in both shapes, the ValueError of min() over no
\* point while the bounding box is computed, and GPX.to_geojson of a
\* document holding such a track raises too.
C29_EmptyTrackRaises ==
    ret.op = "to_geojson" =>
        /\ (self.cls = "Track" /\ TrackPoints(self) = {})
              => ret.out = Raise("ValueError")
        /\ (self.cls = "GPX" /\ HasEmptyTrack(self))
              => ret.out = Raise("ValueError")

\* C29 witness: the FeatureCollection of a document with a waypoint and a
\* track of one empty segment was asked for, and the call raised
C29_Witness ==
    /\ ret.op = "to_geojson"
    /\ ret.type = "FeatureCollection"
    /\ self.cls = "GPX"
    /\ self.wpts # <<>>
    /\ Len(self.trks) = 1
    /\ Len(self.trks[1].trksegs) = 1
    /\ self.trks[1].trksegs[1].trkpts = <<>>
    /\ ~ret.out.ok

\* C29, the track itself: a track of two empty segments asked for its
\* MultiLineString
C29_TrackWitness ==
    /\ ret.op = "to_geojson"
    /\ ret.type = "MultiLineString"
    /\ self.cls = "Track"
    /\ Len(self.trksegs) = 2
    /\ TrackPoints(self) = {}
    /\ ~ret.out.ok

(***************************************************************************)
(* Empty document                                                          *)
(***************************************************************************)
EmptyDocument(gpx) ==
    gpx.cls = "GPX" /\ gpx.wpts = <<>> /\ gpx.rtes = <<>> /\ gpx.trks = <<>>

EmptyBox == <<Infinity, Infinity, NegInfinity, NegInfinity>>

\* C30: GPX.to_geojson of a document without waypoints, routes and tracks
\* succeeds in both collection shapes, with an empty "features" or
\* "geometries" list and the "bbox" (Infinity, Infinity, -Infinity,
\* -Infinity), whose minima are greater than its maxima.
C30_EmptyDocument ==
    (ret.op = "to_geojson" /\ EmptyDocument(self)) =>
        /\ ret.out =
              IF ret.type = "GeometryCollection"
              THEN Ok([type |-> "GeometryCollection", bbox |-> EmptyBox,
                       geometries |-> <<>>])
              ELSE Ok([type |-> "FeatureCollection", bbox |-> EmptyBox,
                       features |-> <<>>])
        /\ DecLess(ret.out.val.bbox[3], ret.out.val.bbox[1])
        /\ DecLess(ret.out.val.bbox[4], ret.out.val.bbox[2])

\* C30 witness: the GeometryCollection of an empty document was returned
C30_Witness ==
    /\ Returned("to_geojson")
    /\ ret.type = "GeometryCollection"
    /\ EmptyDocument(self)
    /\ ret.out.val.geometries = <<>>
    /\ Len(ret.out.val.bbox) = 4

\* C30, the other shape: the FeatureCollection of an empty document
C30_FeatureWitness ==
    /\ Returned("to_geojson")
    /\ ret.type = "FeatureCollection"
    /\ EmptyDocument(self)
    /\ ret.out.val.features = <<>>

====
